---------------------------- MODULE Spec2Model ----------------------------
(***************************************************************************)
(* Host side of the RISC-V CoVE / TEE confidential-VM support of edk2:     *)
(*   UefiCpuPkg/RiscVTeeDxe/RiscVTeeMmInit.c   StandaloneMmInitialization  *)
(*   UefiCpuPkg/RiscVCoVEDxe/RiscVCoVEDxe.c    RiscVTriggerMM and the exit *)
(*                                             dispatcher                  *)
(*                                                                         *)
(* Units.  TLC integers are 32 bits wide, and MM_VM_RAM_BASE is 2^31, so   *)
(* every GUEST-PHYSICAL address of the model (and HTVAL) is counted in     *)
(* 4-byte words: the byte address is 4 * word (+ the two low bits, kept    *)
(* apart where the code has them).  HTVAL holds the guest physical address *)
(* shifted right by two, i.e. exactly the word address.  HOST-PHYSICAL     *)
(* addresses and all SIZES stay in bytes.                                  *)
(***************************************************************************)
EXTENDS Integers, Sequences, FiniteSets, TLC

VARIABLES
  \* ---- build and platform
  assertOn,      \* ASSERT()/ASSERT_EFI_ERROR() are compiled in and enabled
  otherHarts,    \* number of harts other than the one running the driver
  \* ---- position of the host driver
  pc,
  \* ---- StandaloneMmInitialization: inputs and locals
  FvSize,        \* PcdGet32 (PcdRiscVStandaloneMmFvSize), bytes
  MemSizePcd,    \* PcdGet64 (PcdRiscVStandaloneMmMemSize), bytes
  TsmInfo,       \* TSM_INFO filled by SbiTeeHostGetTsmInfo
  MmBase, MmSize, PageStart, StackBottom, HeapStart, MmTvmSize, NumPtePages,
  InitStatus,    \* value returned by StandaloneMmInitialization
  \* ---- RiscVCoVEDxe.c statics
  mTvmGuestId, mTvmRunBlock, mGuestSharedMemoryBase, mGuestSharedMemorySize,
  mHostSharedMemoryBase, gTimerAp,
  \* ---- RiscVTriggerMM: its caller, its locals, the timer behind gTimerAp
  caller, Status, TimerPeriod, hwTimerPeriod,
  \* ---- NACL shared memory and the CSRs the exit leaves behind
  GuestGprs,     \* TSM_SHMEM_SCRATCH.GuestGprs[32]
  HtVal, HtInst, \* ShmemPtr->Csrs[NACL_CSR_IDX (CSR_HTVAL / CSR_HTINST)]
  Scause, Stval, \* RiscVGetScauseRegister (), RiscVGetStvalRegister ()
  ExcStatus,     \* value returned by the last RiscVCoVEException / handler
  FaultAddrU64,  \* RiscVCoVEException's local FaultAddr, all 64 bits of it
  \* ---- what the last step did (reset by every step)
  sbi,           \* monitor calls issued, in order
  mmioLog,       \* device accesses performed, in order
  gprLog,        \* writes to the guest register area, in order
  \* ---- history: the monitor's view (never read by the driver)
  finalizeCount,   \* FinalizeTvm calls issued so far
  tsmPending,      \* page ranges converted, conversion not yet completed
  tsmConfidential, \* page ranges whose conversion is completed
  declaredMmio,    \* MMIO regions the guest declared and has not removed
  declaredShared,  \* shared regions the guest declared and the host accepted
  unfenced,        \* an accepted share request awaits its per-TVM fence
  gShmemSet, gShmemSize, \* MPXY library: the shared memory is set, its size
  shmem,           \* what the MPXY shared memory at gShmemPhysLo holds
  InputBuffer,     \* DelegatedEventLoop's local InputBuffer
  MmReqFwdResp,    \* DelegatedEventLoop's local MmReqFwdResp (mm_data)
  EventCompleteSvcArgs, \* *EventCompleteSvcArgs (mm_data)
  evLog,           \* what the last step of the Standalone MM side did
  \* ---- MmCommunication2Communicate: the caller's memory, the NS buffer
  CommBuffer,      \* *CommBufferVirtual: the header's MessageLength, the data
  CommSize,        \* *CommSize, or no CommSize at all
  NsSharedBuf,     \* what the buffer shared with the MM side holds
  \* ---- CommonRiscvMpxy.c statics, and the page allocator under them
  gNonChanTempShmem, \* NULL, or the buffer of the non-channel reads
  gShmemVirt, gNrShmemPages, gShmemPhysLo, gShmemRefCount,
  heapNext,        \* buffers AllocateAlignedPages has handed out so far
  heapFreed,       \* what FreePages / FreeAlignedPages was called on
  chanLog          \* what the last call into the MPXY library did

buildVars == <<assertOn>>
platVars  == <<otherHarts, FvSize, MemSizePcd>>
initVars  == <<TsmInfo, MmBase, MmSize, PageStart,
               StackBottom, HeapStart, MmTvmSize, NumPtePages, InitStatus>>
drvVars   == <<mTvmGuestId, mTvmRunBlock, mGuestSharedMemoryBase,
               mGuestSharedMemorySize, mHostSharedMemoryBase, gTimerAp>>
runVars   == <<caller, Status, TimerPeriod, hwTimerPeriod>>
exitVars  == <<GuestGprs, HtVal, HtInst, Scause, Stval, ExcStatus>>
faultVars == <<FaultAddrU64>>
commVars  == <<CommBuffer, CommSize, NsSharedBuf>>
chanVars  == <<gNonChanTempShmem, gShmemVirt, gNrShmemPages, gShmemPhysLo,
               gShmemRefCount, heapNext, heapFreed, chanLog>>
mmVars    == <<gShmemSet, gShmemSize, shmem, InputBuffer, MmReqFwdResp,
               EventCompleteSvcArgs, evLog>>
logVars   == <<sbi, mmioLog, gprLog>>
histVars  == <<finalizeCount, tsmPending, tsmConfidential, declaredMmio,
               declaredShared, unfenced>>
vars == <<pc, buildVars, platVars, initVars, drvVars, runVars, exitVars,
          faultVars, commVars, chanVars, mmVars, logVars, histVars>>

-----------------------------------------------------------------------------
(* Program constants *)

SIZE_4KB == 4096
SIZE_16KB == 16384
SIZE_32MB == 33554432
\* 0x80000000 bytes, in 4-byte words
MM_VM_RAM_BASE == 536870912
MM_VM_BOOT_INFO_OFFSET == 0
MM_VM_BOOT_STACK_OFFSET == 65536
MM_VM_BOOT_HEAP_OFFSET == 131072
MM_VM_RAM_MM_SHARED_BUF_OFFSET == 1048576
MM_VM_RAM_IMAGE_START_OFFSET == 2097152
MM_VM_BOOT_INFO_SIZE == 65536
MM_VM_BOOT_STACK_SIZE == 65536
MM_VM_BOOT_HEAP_SIZE == 65536
MM_VM_RAM_MM_SHARED_BUF_SIZE == 1048576
MM_VM_RAM_MIN_SIZE == SIZE_32MB
ENTRIES_PER_PAGE == 512
RISCV_TEE_VCPU_ID == 0
\* 0x434F5647
EXT_COVE_GUEST == 1129272903
EXT_PUT_CHAR == 1
TSM_READY == 2

\* enum TVM_EXCEPTION
EXCEPT_RISCV_ENV_CALL_FROM_VS_MODE == 10
EXCEPT_RISCV_LOAD_GUEST_PAGE_FAULT == 21
EXCEPT_RISCV_VIRTUAL_INSTRUCTION == 22
EXCEPT_RISCV_STORE_GUEST_PAGE_FAULT == 23

\* Bytes to 4-byte words (address arithmetic)
WordsOf(bytes) == bytes \div 4

\* A pointer-valued variable holding no address
NULL == 0

-----------------------------------------------------------------------------
(* Bit fields of a 32-bit instruction word *)

\* (v >> lo) & ((1 << n) - 1)
Bits(v, lo, n) == (v \div (2 ^ lo)) % (2 ^ n)

\* The value an n-byte access carries: the (UINT8)/(UINT16)/(UINT32) cast of
\* MmioRead8/16/32 and MmioWrite8/16/32.  Register and device values of the
\* model stay below 2^31, so a 4- or 8-byte access keeps them.
Trunc(v, size) ==
  CASE size = 1 -> v % 256
    [] size = 2 -> v % 65536
    [] OTHER    -> v

\* FaultAddr = (HTVAL << 2) | (STVAL & 0x3), kept as the word address and the
\* two low bits.  The shift drops the top two bits of a 64-bit HTVAL; the
\* HTVAL values of the model are below 2^31, where it drops nothing.
FaultAddrOf(htval, stval) == [w |-> htval, low |-> stval % 4]

-----------------------------------------------------------------------------
(* 64-bit arithmetic.  A UINT64 whose upper bits matter is kept as four     *)
(* 16-bit limbs, least significant first.                                   *)

LimbBits == 16
LimbCount == 4
LimbBase == 2 ^ LimbBits

\* The UINT64 holding a non-negative number below 2^31
ToUint64(v) == <<v % LimbBase, v \div LimbBase, 0, 0>>

\* a | b and a & b on n-bit numbers
RECURSIVE OrBits(_, _, _)
OrBits(a, b, n) ==
  IF n = 0 THEN 0
  ELSE (IF a % 2 = 1 \/ b % 2 = 1 THEN 1 ELSE 0)
         + 2 * OrBits(a \div 2, b \div 2, n - 1)

RECURSIVE AndBits(_, _, _)
AndBits(a, b, n) ==
  IF n = 0 THEN 0
  ELSE (IF a % 2 = 1 /\ b % 2 = 1 THEN 1 ELSE 0)
         + 2 * AndBits(a \div 2, b \div 2, n - 1)

Or64(a, b) == [i \in 1..LimbCount |-> OrBits(a[i], b[i], LimbBits)]
And64(a, b) == [i \in 1..LimbCount |-> AndBits(a[i], b[i], LimbBits)]

\* a << n for n < 16: the bits shifted out of the top limb are lost
Shl64(a, n) ==
  [i \in 1..LimbCount |->
     (a[i] * (2 ^ n)
        + (IF i = 1 THEN 0 ELSE a[i - 1] \div (2 ^ (LimbBits - n))))
     % LimbBase]

\* a < b, unsigned
Less64(a, b) ==
  \E i \in 1..LimbCount :
    /\ a[i] < b[i]
    /\ \A j \in (i + 1)..LimbCount : a[j] = b[j]

\* A mask that forgets the '& 0x3'.
FaultAddr64_noMask(htval, stval) ==
  Or64(Shl64(htval, 2), stval)

\* FaultAddr = (HTVAL << 2) | (stval & 0x3), in UINT64
FaultAddr64(htval, stval) ==
  Or64(Shl64(htval, 2), And64(stval, ToUint64(3)))

\* FaultAddr before any page fault was handled
NoFaultAddr == ToUint64(0)

-----------------------------------------------------------------------------
(* RiscVCoVEHandleMmioAccess: decode of HTINST and the emulated access *)

\* Check if Mmio request from TVM valid: a stub
RiscVCoVEMmioRegionCheck(Address, Length) == TRUE

\* switch (Instruction & 0b11), switch ((Instruction >> 2) & 0b11111)
MmioDirection(Instruction) ==
  IF Bits(Instruction, 0, 2) = 3
  THEN CASE Bits(Instruction, 2, 5) = 0 -> "load"
         [] Bits(Instruction, 2, 5) = 8 -> "store"
         [] OTHER                       -> "invalid"
  ELSE "invalid"

\* A decode that reads the width of a word access as a halfword.
MmioSize_wrongWord(Instruction) ==
  LET f == Bits(Instruction, 12, 3)
  IN  CASE f \in {0, 4}    -> 1
        [] f \in {1, 5}    -> 2
        [] f \in {2, 6}    -> 2
        [] f = 3           -> 8
        [] OTHER           -> 0

\* switch ((Instruction >> 12) & 0b111); 0 stands for the default branch
MmioSize(Instruction) ==
  LET f == Bits(Instruction, 12, 3)
  IN  CASE f \in {0, 4}    -> 1
        [] f \in {1, 5}    -> 2
        [] f \in {2, 6}    -> 4
        [] f = 3           -> 8
        [] OTHER           -> 0

\* The handler's result: its status, the device accesses it made and the
\* writes it made to the guest register area.  DevVal is what the device
\* holds at FaultAddr.
RiscVCoVEHandleMmioAccess(Instruction, FaultAddr, Gprs, DevVal) ==
  LET dir  == MmioDirection(Instruction)
      Size == MmioSize(Instruction)
      bad  == [Status |-> "EFI_INVALID_PARAMETER", mmio |-> <<>>, gpr |-> <<>>]
  IN  IF dir = "invalid" \/ Size = 0 THEN bad
      ELSE IF ~RiscVCoVEMmioRegionCheck(FaultAddr, Size) THEN bad
      ELSE IF dir = "load"
      THEN LET Val == Trunc(DevVal, Size)
           IN  [Status |-> "EFI_SUCCESS",
                mmio   |-> <<[op |-> "read", addr |-> FaultAddr,
                              size |-> Size, val |-> Val]>>,
                gpr    |-> <<[idx |-> 10, val |-> Val]>>]
      ELSE LET Val == Gprs[10]
           IN  [Status |-> "EFI_SUCCESS",
                mmio   |-> <<[op |-> "write", addr |-> FaultAddr,
                              size |-> Size, val |-> Trunc(Val, Size)]>>,
                gpr    |-> <<>>]

\* MmioWrite64 / MmioWriteBuffer64 into TSM_SHMEM_SCRATCH.GuestGprs
RECURSIVE ApplyGprWrites(_, _)
ApplyGprWrites(Gprs, log) ==
  IF log = <<>> THEN Gprs
  ELSE ApplyGprWrites([Gprs EXCEPT ![Head(log).idx] = Head(log).val],
                      Tail(log))

-----------------------------------------------------------------------------
(* Inputs of the model *)

\* Registers an instruction may name as rd / rs2: a0, a1 and one that is not
\* an argument register
RegSamples == {5, 10, 11}

\* A 32-bit instruction word from its fields
Encode(low2, opc, rd, funct3, rs2) ==
  low2 + opc * 4 + rd * 128 + funct3 * 4096 + rs2 * 1048576

\* Every combination of the two low bits, the opcode and funct3
AllInstructions ==
  { Encode(l, o, rd, f, rs2) :
      l \in 0..3, o \in 0..31, f \in 0..7, rd \in RegSamples,
      rs2 \in RegSamples }

\* A register file in which every register holds a value of its own, wide
\* enough for the 1- and 2-byte casts to cut it
SeedGprs == [i \in 0..31 |-> 70000 + i]

ZeroGprs == [i \in 0..31 |-> 0]

\* What a device register may hold
DevVals == {0, 74565}

\* Guest-physical word addresses: a device register outside the TVM's RAM
\* (0x10000000), the first word of the shared-buffer window and the word
\* after the window
MmioWord == 67108864
WindowFirst == MM_VM_RAM_BASE + WordsOf(MM_VM_RAM_MM_SHARED_BUF_OFFSET)
WindowEnd == WindowFirst + WordsOf(MM_VM_RAM_MM_SHARED_BUF_SIZE)

NoScause == [intr |-> FALSE, code |-> 0]
NoTsmInfo == [TsmState |-> 0, TvmStatePages |-> 0, TvmVcpuStatePages |-> 0]

\* Everything but the position and the exit registers, before the driver ran
\* The Standalone MM side before CModuleEntryPoint ran: the MPXY statics as
\* they are defined, the locals not yet assigned
NoData == [len |-> 0]
Unassigned == [Arg0 |-> -1, Arg1 |-> -1]
\* No request at MmCommunication2Communicate
CommQuiet ==
  /\ CommBuffer = [null |-> TRUE] /\ CommSize = [null |-> TRUE]
  /\ NsSharedBuf = [HeaderGuid |-> "none", MessageLength |-> 0,
                    Data |-> "none"]

\* #define INVAL_PHYS_ADDR (-1U)
INVAL_PHYS_ADDR == -1

\* The MPXY library before its first call
ChanQuiet ==
  /\ gNonChanTempShmem = NULL
  /\ gShmemVirt = NULL /\ gNrShmemPages = 0
  /\ gShmemPhysLo = INVAL_PHYS_ADDR
  /\ gShmemRefCount = 0
  /\ heapNext = 0 /\ heapFreed = {}
  /\ chanLog = [op |-> "none"]

MmQuiet ==
  /\ gShmemSet = FALSE /\ gShmemSize = 0 /\ shmem = NoData
  /\ InputBuffer = 0
  /\ MmReqFwdResp = Unassigned
  /\ EventCompleteSvcArgs = Unassigned
  /\ evLog = <<>>

InitQuiet ==
  /\ assertOn \in BOOLEAN
  /\ otherHarts = 0
  /\ FvSize = 0 /\ MemSizePcd = 0 /\ TsmInfo = NoTsmInfo
  /\ MmBase = 0 /\ MmSize = 0 /\ PageStart = 0 /\ StackBottom = 0
  /\ HeapStart = 0 /\ MmTvmSize = 0 /\ NumPtePages = 0
  /\ InitStatus = "none"
  /\ mTvmGuestId = 0 /\ mTvmRunBlock = FALSE
  /\ mGuestSharedMemoryBase = 0 /\ mGuestSharedMemorySize = 0
  /\ mHostSharedMemoryBase = NULL /\ gTimerAp = NULL
  /\ caller = "none" /\ Status = "none" /\ TimerPeriod = 0
  /\ hwTimerPeriod = 0
  /\ ExcStatus = "none" /\ FaultAddrU64 = NoFaultAddr
  /\ MmQuiet /\ CommQuiet /\ ChanQuiet
  /\ sbi = <<>> /\ mmioLog = <<>> /\ gprLog = <<>>
  /\ finalizeCount = 0 /\ tsmPending = {} /\ tsmConfidential = {}
  /\ declaredMmio = {} /\ declaredShared = {}
  /\ unfenced = FALSE

-----------------------------------------------------------------------------
(* SpecMmio: RiscVCoVEHandleMmioAccess applied once to every instruction word *)

InitMmio ==
  /\ pc = "mmio"
  /\ HtInst \in AllInstructions
  /\ HtVal = MmioWord
  /\ Stval \in {0, 3}
  /\ Scause = NoScause
  /\ GuestGprs = SeedGprs
  /\ InitQuiet

MmioAccess ==
  /\ pc = "mmio"
  /\ \E DevVal \in DevVals :
       LET r == RiscVCoVEHandleMmioAccess(HtInst, FaultAddrOf(HtVal, Stval),
                                          GuestGprs, DevVal)
       IN  /\ ExcStatus' = r.Status
           /\ mmioLog' = r.mmio
           /\ gprLog' = r.gpr
           /\ GuestGprs' = ApplyGprWrites(GuestGprs, r.gpr)
  /\ pc' = "mmio_done"
  /\ sbi' = <<>>
  /\ UNCHANGED <<buildVars, faultVars, commVars, chanVars, mmVars, platVars, initVars, drvVars, runVars, HtVal,
                 HtInst, Scause, Stval, histVars>>

NextMmio == MmioAccess

SpecMmio == InitMmio /\ [][NextMmio]_vars

-----------------------------------------------------------------------------
(* Properties of the MMIO emulation, checked under SpecMmio *)

\* C8: for every valid uncompressed load (LB, LH, LW, LD, LBU, LHU, LWU) and
\* store (SB, SH, SW, SD) in HTINST, RiscVCoVEHandleMmioAccess succeeds and
\* performs exactly one device access, a read for a load and a write for a
\* store, of the width the instruction set gives that instruction, at the
\* fault address.
C8_DecodeExact ==
  LET low2   == HtInst % 4
      opc    == (HtInst \div 4) % 32
      funct3 == (HtInst \div 4096) % 8
      width  == CASE funct3 \in {0, 4} -> 1
                  [] funct3 \in {1, 5} -> 2
                  [] funct3 \in {2, 6} -> 4
                  [] OTHER             -> 8
      load   == low2 = 3 /\ opc = 0 /\ funct3 \in 0..6
      store  == low2 = 3 /\ opc = 8 /\ funct3 \in 0..3
  IN  (pc = "mmio_done" /\ (load \/ store)) =>
        /\ ExcStatus = "EFI_SUCCESS"
        /\ Len(mmioLog) = 1
        /\ mmioLog[1].op = (IF load THEN "read" ELSE "write")
        /\ mmioLog[1].size = width
        /\ mmioLog[1].addr = [w |-> HtVal, low |-> Stval % 4]

\* C8 witness: an LWU (funct3 = 110) at a fault address with low bits 3 was
\* emulated by one 4-byte read.
C8_Witness ==
  /\ pc = "mmio_done"
  /\ HtInst = Encode(3, 0, 5, 6, 10)
  /\ Stval % 4 = 3
  /\ Len(mmioLog) = 1
  /\ mmioLog[1].op = "read"
  /\ mmioLog[1].size = 4

\* C9: every HTINST that is not a valid load or store (low two bits not 11,
\* opcode neither LOAD nor STORE, funct3 = 111, or a STORE with funct3 in
\* {100, 101, 110}) ends in EFI_INVALID_PARAMETER with no device access and no
\* write to the guest register area.
C9_InvalidRejected ==
  LET low2    == HtInst % 4
      opc     == (HtInst \div 4) % 32
      funct3  == (HtInst \div 4096) % 8
      invalid == \/ low2 # 3
                 \/ opc \notin {0, 8}
                 \/ funct3 = 7
                 \/ (opc = 8 /\ funct3 \in {4, 5, 6})
  IN  (pc = "mmio_done" /\ invalid) =>
        /\ ExcStatus = "EFI_INVALID_PARAMETER"
        /\ mmioLog = <<>>
        /\ gprLog = <<>>

\* C10: the value of an emulated load is written to the guest register slot
\* of the instruction's 'rd', and the value of an emulated store is the one
\* in the slot of its 'rs2'.
C10_RdRs2Slots ==
  LET opc == (HtInst \div 4) % 32
      rd  == (HtInst \div 128) % 32
      rs2 == (HtInst \div 1048576) % 32
  IN  (pc = "mmio_done" /\ ExcStatus = "EFI_SUCCESS") =>
        IF opc = 0
        THEN gprLog = <<[idx |-> rd, val |-> mmioLog[1].val]>>
        ELSE mmioLog[1].val = Trunc(GuestGprs[rs2], mmioLog[1].size)

-----------------------------------------------------------------------------
(* The monitor (TSM) as the SBI interface documents it: what the host's    *)
(* calls leave behind.  The driver never reads this record.                *)

MaxOtherHarts == 1

Hist ==
  [fin      |-> finalizeCount,
   pending  |-> tsmPending,
   conf     |-> tsmConfidential,
   unfenced |-> unfenced]

\* [base, base + pages * 4KiB) lies in one range whose conversion is complete
Covered(conf, base, pages) ==
  \E r \in conf :
    /\ r.base <= base
    /\ base + pages * SIZE_4KB <= r.base + r.pages * SIZE_4KB

\* A call the driver is about to issue and what the monitor answers.
\* 'asserted' says the call's result is checked by an ASSERT.
SbiCallOf(fn, base, pages, gpa, ok, value, asserted) ==
  [fn |-> fn, base |-> base, pages |-> pages, gpa |-> gpa, ok |-> ok,
   value |-> value, asserted |-> asserted]

\* The call as it is logged: with the monitor's state at the time of issue
Issued(h, c) ==
  [fn |-> c.fn, base |-> c.base, pages |-> c.pages, gpa |-> c.gpa,
   ok |-> c.ok,
   pre |-> [fin      |-> h.fin,
            conv     |-> Covered(h.conf, c.base, c.pages),
            unfenced |-> h.unfenced]]

\* The monitor's state after call c.  ConvertPages begins a conversion;
\* GlobalFence starts the TLB invalidation sequence for all pages marked for
\* conversion, which is complete once LocalFence ran on all other CPUs (the
\* driver has no call of LocalFence, so only with no other CPU);
\* TvmFence completes an assignment change.
After(h, c) ==
  CASE c.fn = "ConvertPages" /\ c.ok ->
         [h EXCEPT !.pending = @ \cup {[base |-> c.base, pages |-> c.pages]}]
    [] c.fn = "GlobalFence" /\ c.ok /\ otherHarts = 0 ->
         [h EXCEPT !.conf = @ \cup h.pending, !.pending = {}]
    [] c.fn = "FinalizeTvm" ->
         [h EXCEPT !.fin = @ + 1]
    [] c.fn = "TvmFence" /\ c.ok ->
         [h EXCEPT !.unfenced = FALSE]
    [] OTHER -> h

\* Issue the calls of 'plan' in order.  A failed call whose result is
\* ASSERTed stops the driver there when assertions are enabled.
RECURSIVE Exec(_, _)
Exec(h, plan) ==
  IF plan = <<>> THEN [calls |-> <<>>, h |-> h, halted |-> FALSE]
  ELSE LET c  == Head(plan)
           h1 == After(h, c)
       IN  IF ~c.ok /\ c.asserted /\ assertOn
           THEN [calls |-> <<Issued(h, c)>>, h |-> h1, halted |-> TRUE]
           ELSE LET r == Exec(h1, Tail(plan))
                IN  [calls  |-> <<Issued(h, c)>> \o r.calls,
                     h      |-> r.h,
                     halted |-> r.halted]

\* The step's calls and the monitor's state after them; the driver goes on
\* at 'nxt' unless an assertion stopped it.
Commit(r, stop, nxt) ==
  /\ sbi' = r.calls
  /\ finalizeCount' = r.h.fin
  /\ tsmPending' = r.h.pending
  /\ tsmConfidential' = r.h.conf
  /\ unfenced' = r.h.unfenced
  /\ pc' = IF r.halted \/ stop THEN "Halt" ELSE nxt

-----------------------------------------------------------------------------
(* RiscVTeeMmInit.c *)

\* ALIGN_VALUE (Value, Alignment)
ALIGN_VALUE(Value, Alignment) ==
  ((Value + Alignment - 1) \div Alignment) * Alignment

CalculateMaxPtePages(TotalSize) ==
  LET NumL1 == (TotalSize \div SIZE_4KB) \div ENTRIES_PER_PAGE + 1
      NumL2 == NumL1 \div ENTRIES_PER_PAGE + 1
      NumL3 == NumL2 \div ENTRIES_PER_PAGE + 1
      NumL4 == 1
  IN  NumL1 + NumL2 + NumL3 + NumL4

\* ASSERT_EFI_ERROR (ConvertToConfidentialMemory (BaseAddr, NumPage)): the
\* calls it issues.  With assertions disabled the macro's argument is not
\* evaluated and nothing is issued.  A failed ConvertPages returns
\* EFI_DEVICE_ERROR before the fence, and the macro stops the driver; the
\* result of GlobalFence is dropped.
ConvertToConfidentialMemory(BaseAddr, NumPage, convOk, fenceOk) ==
  IF assertOn
  THEN << SbiCallOf("ConvertPages", BaseAddr, NumPage, 0, convOk, 0, TRUE),
          SbiCallOf("GlobalFence", 0, 0, 0, fenceOk, 0, FALSE) >>
  ELSE << >>

\* What SbiTeeHostGetTsmInfo may report: a TSM that is loaded but not ready
\* (TSM_LOADED = 1) and one that is ready
TsmInfoSamples ==
  { [TsmState |-> st, TvmStatePages |-> 2, TvmVcpuStatePages |-> 1] :
      st \in {1, TSM_READY} }

\* PcdRiscVStandaloneMmFvSize: not set, 1MiB, 31MiB, which leaves no room
\* for the image at its offset in a region of 32MiB, and 32MiB, an image as
\* large as the whole region
FvSizeSamples == {0, 1048576, 32505856, 33554432}

\* What AllocateReservedPages may return besides 0: an address that is
\* 16KiB-aligned and one that is only 4KiB-aligned
MmBaseSamples == {16777216, 16781312}

\* What AllocateAlignedPages may return for the boot info besides NULL
BootInfoSamples == {8388608}

\* What SbiTeeHostCreateTvm may leave in SBI_RET.Value, which the driver
\* takes as the guest id whether the call succeeded or not
TvmGuestIds == {1}

\* Variables no step of StandaloneMmInitialization touches
otherDrv == <<mTvmRunBlock, mGuestSharedMemoryBase, mGuestSharedMemorySize,
              mHostSharedMemoryBase, gTimerAp>>
initFrame == <<buildVars, faultVars, commVars, chanVars, mmVars, otherDrv, runVars, exitVars, mmioLog, gprLog,
               declaredMmio, declaredShared>>

\* The record of conversions ends with StandaloneMmInitialization: no step
\* after it converts a page or assigns a confidential one.
EndLedger(r) == [r EXCEPT !.h.pending = {}, !.h.conf = {}]

\* StandaloneMmInitialization returns: its locals are gone, and nothing
\* reads the PCDs or depends on the number of harts from here on
InitReturn(status) ==
  /\ InitStatus' = status
  /\ otherHarts' = 0 /\ FvSize' = 0 /\ MemSizePcd' = 0
  /\ TsmInfo' = NoTsmInfo
  /\ MmBase' = 0 /\ MmSize' = 0 /\ PageStart' = 0 /\ StackBottom' = 0
  /\ HeapStart' = 0 /\ MmTvmSize' = 0 /\ NumPtePages' = 0

\* InitEntry without the test of TsmInfo.TsmState
InitEntry_noReadyCheck ==
  /\ pc = "Entry"
  /\ \E ok \in BOOLEAN, info \in TsmInfoSamples,
        base \in {0} \cup MmBaseSamples :
       LET size == ALIGN_VALUE(MemSizePcd, SIZE_4KB)
           ret  == IF FvSize = 0 THEN "EFI_INVALID_PARAMETER"
                   ELSE IF ~ok THEN "EFI_NOT_STARTED"
                   ELSE IF assertOn /\ ~(size >= MM_VM_RAM_MIN_SIZE)
                        THEN "assert"
                   ELSE IF base = 0 THEN "EFI_OUT_OF_RESOURCES"
                   ELSE "go"
           r    == Exec(Hist,
                     IF FvSize = 0 THEN << >>
                     ELSE << SbiCallOf("GetTsmInfo", 0, 0, 0, ok, 0, FALSE) >>)
       IN  /\ Commit(r, ret = "assert",
                     IF ret = "go" THEN "CreateTvm" ELSE "Done")
           /\ IF ret = "go"
              THEN /\ TsmInfo' = info /\ MmSize' = size /\ MmBase' = base
                   /\ UNCHANGED <<platVars, PageStart, StackBottom,
                                  HeapStart, MmTvmSize, NumPtePages,
                                  InitStatus>>
              ELSE InitReturn(IF ret = "assert" THEN InitStatus ELSE ret)
  /\ UNCHANGED <<initFrame, mTvmGuestId>>

\* Parameter check, TSM info, size of the region, its allocation
InitEntry ==
  /\ pc = "Entry"
  /\ \E ok \in BOOLEAN, info \in TsmInfoSamples,
        base \in {0} \cup MmBaseSamples :
       LET size == ALIGN_VALUE(MemSizePcd, SIZE_4KB)
           ret  == IF FvSize = 0 THEN "EFI_INVALID_PARAMETER"
                   ELSE IF ~ok THEN "EFI_NOT_STARTED"
                   ELSE IF info.TsmState # TSM_READY THEN "EFI_NOT_READY"
                   ELSE IF assertOn /\ ~(size >= MM_VM_RAM_MIN_SIZE)
                        THEN "assert"
                   ELSE IF base = 0 THEN "EFI_OUT_OF_RESOURCES"
                   ELSE "go"
           r    == Exec(Hist,
                     IF FvSize = 0 THEN << >>
                     ELSE << SbiCallOf("GetTsmInfo", 0, 0, 0, ok, 0, FALSE) >>)
       IN  /\ Commit(r, ret = "assert",
                     IF ret = "go" THEN "CreateTvm" ELSE "Done")
           /\ IF ret = "go"
              THEN /\ TsmInfo' = info /\ MmSize' = size /\ MmBase' = base
                   /\ UNCHANGED <<platVars, PageStart, StackBottom,
                                  HeapStart, MmTvmSize, NumPtePages,
                                  InitStatus>>
              ELSE InitReturn(IF ret = "assert" THEN InitStatus ELSE ret)
  /\ UNCHANGED <<initFrame, mTvmGuestId>>

\* TVM Create param
InitCreateTvm ==
  /\ pc = "CreateTvm"
  /\ \E ok \in [1..3 -> BOOLEAN], id \in TvmGuestIds :
       LET start == ALIGN_VALUE(MmBase, SIZE_16KB)
           n     == TsmInfo.TvmStatePages + 4
           r     == Exec(Hist,
                      ConvertToConfidentialMemory(start, n, ok[1], ok[2]) \o
                      << SbiCallOf("CreateTvm", start, n, 0, ok[3], id,
                                   TRUE) >>)
       IN  /\ Commit(r, FALSE, "CreateTvmVcpu")
           /\ mTvmGuestId' = IF r.halted THEN mTvmGuestId
                             ELSE id
           /\ PageStart' = IF r.halted THEN start ELSE start + n * SIZE_4KB
  /\ UNCHANGED <<initFrame, platVars, TsmInfo, MmBase, MmSize, StackBottom, HeapStart,
                 MmTvmSize, NumPtePages, InitStatus>>

\* Add 1 Vcpu
InitCreateTvmVcpu ==
  /\ pc = "CreateTvmVcpu"
  /\ \E ok \in [1..3 -> BOOLEAN] :
       LET n == TsmInfo.TvmVcpuStatePages
           r == Exec(Hist,
                  ConvertToConfidentialMemory(PageStart, n, ok[1], ok[2]) \o
                  << SbiCallOf("CreateTvmVcpu", PageStart, n, 0, ok[3], 0,
                               TRUE) >>)
       IN  /\ Commit(r, FALSE, "AddPageTables")
           /\ PageStart' = IF r.halted THEN PageStart
                           ELSE PageStart + n * SIZE_4KB
  /\ UNCHANGED <<initFrame, platVars, mTvmGuestId, TsmInfo, MmBase, MmSize, StackBottom,
                 HeapStart, MmTvmSize, NumPtePages, InitStatus>>

\* Add page tables pages
InitAddPageTables ==
  /\ pc = "AddPageTables"
  /\ \E ok \in [1..3 -> BOOLEAN] :
       LET size == MmSize - (PageStart - MmBase)
           n    == CalculateMaxPtePages(size)
           r    == Exec(Hist,
                     ConvertToConfidentialMemory(PageStart, n, ok[1], ok[2]) \o
                     << SbiCallOf("AddTvmPageTablePages", PageStart, n, 0,
                                  ok[3], 0, TRUE) >>)
       IN  /\ Commit(r, FALSE, "AddMemoryRegion")
           /\ MmTvmSize' = size
           /\ NumPtePages' = n
           /\ PageStart' = IF r.halted THEN PageStart
                           ELSE PageStart + n * SIZE_4KB
  /\ UNCHANGED <<initFrame, platVars, mTvmGuestId, TsmInfo, MmBase, MmSize, StackBottom,
                 HeapStart, InitStatus>>

\* Add usable memory region for TVM
InitAddMemoryRegion ==
  /\ pc = "AddMemoryRegion"
  /\ \E ok \in BOOLEAN :
       LET r == Exec(Hist, << SbiCallOf("AddTvmMemoryRegion", 0, 0,
                                        MM_VM_RAM_BASE, ok, 0, TRUE) >>)
       IN  Commit(r, FALSE, "BootInfo")
  /\ MmTvmSize' = MmSize - (PageStart - MmBase)
  /\ UNCHANGED <<initFrame, platVars, mTvmGuestId, TsmInfo, MmBase, MmSize, PageStart,
                 StackBottom, HeapStart, NumPtePages, InitStatus>>

\* Add boot info to measured data.  With no memory for the boot info the
\* whole region goes back to the page allocator (FreePages) and the function
\* returns; otherwise the boot info does, once it is measured.
InitBootInfo ==
  /\ pc = "BootInfo"
  /\ \E ok \in [1..3 -> BOOLEAN], BootInfo \in {NULL} \cup BootInfoSamples :
       IF BootInfo = NULL
       THEN /\ Commit(EndLedger(Exec(Hist, << >>)), FALSE, "Done")
            /\ InitReturn("EFI_OUT_OF_RESOURCES")
            /\ heapFreed' = heapFreed \cup
                              {[base |-> MmBase, pages |-> MmSize \div SIZE_4KB]}
       ELSE LET n == MM_VM_BOOT_INFO_SIZE \div SIZE_4KB
                r == Exec(Hist,
                       ConvertToConfidentialMemory(PageStart, n, ok[1],
                                                   ok[2]) \o
                       << SbiCallOf("AddTvmMeasuredPages", PageStart, n,
                                    MM_VM_RAM_BASE
                                      + WordsOf(MM_VM_BOOT_INFO_OFFSET),
                                    ok[3], 0, TRUE) >>)
            IN  /\ Commit(r, FALSE, "Stack")
                /\ PageStart' = IF r.halted THEN PageStart
                                ELSE PageStart + MM_VM_BOOT_INFO_SIZE
                /\ heapFreed' = IF r.halted THEN heapFreed
                                ELSE heapFreed \cup
                                       {[base |-> BootInfo, pages |-> n]}
                /\ UNCHANGED <<platVars, TsmInfo, MmBase, MmSize,
                               StackBottom, HeapStart, MmTvmSize,
                               NumPtePages, InitStatus>>
  /\ UNCHANGED <<buildVars, faultVars, commVars, mmVars, otherDrv, runVars,
                 exitVars, mmioLog, gprLog, declaredMmio, declaredShared,
                 mTvmGuestId, gNonChanTempShmem, gShmemVirt, gNrShmemPages,
                 gShmemPhysLo, gShmemRefCount, heapNext, chanLog>>

\* Convert the stack memory
InitStack ==
  /\ pc = "Stack"
  /\ \E ok \in [1..2 -> BOOLEAN] :
       LET r == Exec(Hist,
                  ConvertToConfidentialMemory(PageStart,
                    MM_VM_BOOT_STACK_SIZE \div SIZE_4KB, ok[1], ok[2]))
       IN  /\ Commit(r, FALSE, "Heap")
           /\ PageStart' = IF r.halted THEN PageStart
                           ELSE PageStart + MM_VM_BOOT_STACK_SIZE
  /\ StackBottom' = PageStart
  /\ UNCHANGED <<initFrame, platVars, mTvmGuestId, TsmInfo, MmBase, MmSize, HeapStart,
                 MmTvmSize, NumPtePages, InitStatus>>

\* Convert the heap memory
InitHeap ==
  /\ pc = "Heap"
  /\ \E ok \in [1..2 -> BOOLEAN] :
       LET r == Exec(Hist,
                  ConvertToConfidentialMemory(PageStart,
                    MM_VM_BOOT_HEAP_SIZE \div SIZE_4KB, ok[1], ok[2]))
       IN  /\ Commit(r, FALSE, "Fv")
           /\ PageStart' = IF r.halted THEN PageStart
                           ELSE PageStart + MM_VM_BOOT_HEAP_SIZE
  /\ HeapStart' = PageStart
  /\ UNCHANGED <<initFrame, platVars, mTvmGuestId, TsmInfo, MmBase, MmSize, StackBottom,
                 MmTvmSize, NumPtePages, InitStatus>>

\* Add FV MM to measured data
InitFv ==
  /\ pc = "Fv"
  /\ \E ok \in [1..3 -> BOOLEAN] :
       LET n == FvSize \div SIZE_4KB
           r == Exec(Hist,
                  ConvertToConfidentialMemory(PageStart, n, ok[1], ok[2]) \o
                  << SbiCallOf("AddTvmMeasuredPages", PageStart, n,
                               MM_VM_RAM_BASE
                                 + WordsOf(MM_VM_RAM_IMAGE_START_OFFSET),
                               ok[3], 0, TRUE) >>)
       IN  /\ Commit(r, FALSE, "Remaining")
           /\ PageStart' = IF r.halted THEN PageStart ELSE PageStart + FvSize
  /\ UNCHANGED <<initFrame, platVars, mTvmGuestId, TsmInfo, MmBase, MmSize, StackBottom,
                 HeapStart, MmTvmSize, NumPtePages, InitStatus>>

\* Convert the rest of MM memory
InitRemaining ==
  /\ pc = "Remaining"
  /\ \E ok \in [1..2 -> BOOLEAN] :
       LET left == MmSize - (PageStart - MmBase)
           room == MmTvmSize - (MM_VM_RAM_IMAGE_START_OFFSET + FvSize)
           \* MIN of two UINT64: a difference below zero has wrapped
           \* and is the larger one
           size == IF (left < 0) = (room < 0)
                   THEN (IF left < room THEN left ELSE room)
                   ELSE (IF room < 0 THEN left ELSE room)
           r    == Exec(Hist,
                     ConvertToConfidentialMemory(PageStart,
                       size \div SIZE_4KB, ok[1], ok[2]))
       IN  /\ Commit(r, FALSE, "Finalize")
           /\ MmTvmSize' = size
  /\ UNCHANGED <<initFrame, platVars, mTvmGuestId, TsmInfo, MmBase, MmSize, PageStart,
                 StackBottom, HeapStart, NumPtePages, InitStatus>>

\* A driver that finalizes the TVM a second time.
InitFinalize_twice ==
  /\ pc = "Finalize"
  /\ \E ok \in BOOLEAN :
       LET c == SbiCallOf("FinalizeTvm", 0, 0,
                          MM_VM_RAM_BASE
                            + WordsOf(MM_VM_RAM_IMAGE_START_OFFSET),
                          ok, 0, TRUE)
       IN  Commit(Exec(Hist, << c, c >>), FALSE, "ZeroPages")
  /\ UNCHANGED <<initFrame, platVars, mTvmGuestId, initVars>>

\* Finalize the TVM
InitFinalize ==
  /\ pc = "Finalize"
  /\ \E ok \in BOOLEAN :
       LET r == Exec(Hist,
                  << SbiCallOf("FinalizeTvm", 0, 0,
                               MM_VM_RAM_BASE
                                 + WordsOf(MM_VM_RAM_IMAGE_START_OFFSET),
                               ok, 0, TRUE) >>)
       IN  Commit(r, FALSE, "ZeroPages")
  /\ UNCHANGED <<initFrame, platVars, mTvmGuestId, initVars>>

\* Add page zeros to the rest of MM memory, the stack and the heap; return
InitZeroPages ==
  /\ pc = "ZeroPages"
  /\ \E ok \in [1..3 -> BOOLEAN] :
       LET r == Exec(Hist,
                  << SbiCallOf("AddTvmZeroPages", PageStart,
                               MmTvmSize \div SIZE_4KB,
                               MM_VM_RAM_BASE
                                 + WordsOf(MM_VM_RAM_IMAGE_START_OFFSET
                                           + FvSize),
                               ok[1], 0, TRUE),
                     SbiCallOf("AddTvmZeroPages", StackBottom,
                               MM_VM_BOOT_STACK_SIZE \div SIZE_4KB,
                               MM_VM_RAM_BASE
                                 + WordsOf(MM_VM_BOOT_STACK_OFFSET),
                               ok[2], 0, TRUE),
                     SbiCallOf("AddTvmZeroPages", HeapStart,
                               MM_VM_BOOT_HEAP_SIZE \div SIZE_4KB,
                               MM_VM_RAM_BASE
                                 + WordsOf(MM_VM_BOOT_HEAP_OFFSET),
                               ok[3], 0, TRUE) >>)
       IN  /\ Commit(IF r.halted THEN r ELSE EndLedger(r), FALSE,
                     "RegisterShmem")
           /\ IF r.halted
              THEN UNCHANGED <<platVars, initVars>>
              ELSE InitReturn("EFI_SUCCESS")
  /\ UNCHANGED <<initFrame, mTvmGuestId>>

-----------------------------------------------------------------------------
(* RiscVCoVEDxe.c: what a return of SbiCoVHRunTvmVcpu may leave behind *)

EcallScause == [intr |-> FALSE, code |-> EXCEPT_RISCV_ENV_CALL_FROM_VS_MODE]
LoadFaultScause ==
  [intr |-> FALSE, code |-> EXCEPT_RISCV_LOAD_GUEST_PAGE_FAULT]
StoreFaultScause ==
  [intr |-> FALSE, code |-> EXCEPT_RISCV_STORE_GUEST_PAGE_FAULT]
VirtualInstructionScause ==
  [intr |-> FALSE, code |-> EXCEPT_RISCV_VIRTUAL_INSTRUCTION]

\* a0, a1, a6 and a7 of an ecall the TSM forwards
EcallGprs(a0, a1, a6, a7) ==
  [ZeroGprs EXCEPT ![10] = a0, ![11] = a1, ![16] = a6, ![17] = a7]

\* SBI_RET.Value of SbiCoVHRunTvmVcpu: 0 resumable, non-zero otherwise
RunValues == {0, 1}

ExitOf(scause, htval, stval, htinst, gprs, value) ==
  [Scause |-> scause, HtVal |-> htval, Stval |-> stval, HtInst |-> htinst,
   GuestGprs |-> gprs, Value |-> value]

\* Guest requests: AddMmioRegion and RemoveMmioRegion of one device page,
\* AddSharedMemory of the whole window and of one page more than the window,
\* UnshareMemory, an unknown function; a character to print; an unknown
\* extension; each with the VCPU left resumable or not
EcallExits ==
  { ExitOf(EcallScause, 0, 0, 0, g, v) :
      v \in RunValues,
      g \in { EcallGprs(MmioWord, SIZE_4KB, 0, EXT_COVE_GUEST),
              EcallGprs(MmioWord, SIZE_4KB, 1, EXT_COVE_GUEST),
              EcallGprs(WindowFirst, MM_VM_RAM_MM_SHARED_BUF_SIZE, 2,
                        EXT_COVE_GUEST),
              EcallGprs(WindowFirst, MM_VM_RAM_MM_SHARED_BUF_SIZE + SIZE_4KB,
                        2, EXT_COVE_GUEST),
              EcallGprs(WindowFirst, MM_VM_RAM_MM_SHARED_BUF_SIZE, 3,
                        EXT_COVE_GUEST),
              EcallGprs(0, 0, 4, EXT_COVE_GUEST),
              EcallGprs(65, 0, 0, EXT_PUT_CHAR),
              EcallGprs(0, 0, 0, 2) } }

\* Fault addresses in the TVM's RAM: the first and the last byte of the
\* shared-buffer window, the byte before and the byte after it (both in the
\* confidential part)
RamFaults ==
  { <<WindowFirst, 0>>, <<WindowEnd - 1, 3>>, <<WindowFirst - 1, 3>>,
    <<WindowEnd, 0>> }

\* The first byte of the window and the byte after the window
StoreRamFaults == { <<WindowFirst, 0>>, <<WindowEnd, 0>> }

\* lw a0, lb t0, and a word that is no instruction
LoadInstructions == { Encode(3, 0, 10, 2, 0), Encode(3, 0, 5, 0, 0), 0 }

\* sw a0, sh t0
StoreInstructions == { Encode(3, 8, 0, 2, 10), Encode(3, 8, 0, 1, 5) }

\* A lw a0 or a sw a0 at the RAM addresses, every instruction at the device
\* register; the VCPU is resumable after a page fault
PageFaultExits ==
  { ExitOf(LoadFaultScause, f[1], f[2], Encode(3, 0, 10, 2, 0), ZeroGprs,
           0) : f \in RamFaults }
  \cup
  { ExitOf(StoreFaultScause, f[1], f[2], Encode(3, 8, 0, 2, 10), SeedGprs,
           0) : f \in StoreRamFaults }
  \cup
  { ExitOf(LoadFaultScause, MmioWord, 0, i, ZeroGprs, 0) :
      i \in LoadInstructions }
  \cup
  { ExitOf(StoreFaultScause, MmioWord, 0, i, SeedGprs, 0) :
      i \in StoreInstructions }

\* A virtual instruction (wfi), an interrupt, an illegal instruction
OtherExits ==
  { ExitOf(sc, 0, 0, 0, ZeroGprs, v) :
      v \in RunValues,
      sc \in { VirtualInstructionScause,
               [intr |-> TRUE, code |-> 5],
               [intr |-> FALSE, code |-> 2] } }

\* Interrupts whose cause, but for the top bit, is the code of an ecall from
\* VS mode (with the registers of an AddMmioRegion request) and of a load
\* guest page fault (with the first byte of the shared-buffer window and a
\* lw a0)
InterruptExits ==
  { ExitOf([intr |-> TRUE, code |-> EXCEPT_RISCV_ENV_CALL_FROM_VS_MODE],
           0, 0, 0, EcallGprs(MmioWord, SIZE_4KB, 0, EXT_COVE_GUEST), 0),
    ExitOf([intr |-> TRUE, code |-> EXCEPT_RISCV_LOAD_GUEST_PAGE_FAULT],
           WindowFirst, 0, Encode(3, 0, 10, 2, 0), ZeroGprs, 0) }

Exits == EcallExits \cup PageFaultExits \cup OtherExits \cup InterruptExits

\* (BOOLEAN) of a UINT64: the low eight bits
ToBoolean(v) == (v % 256) # 0

\* What AllocateRuntimePages may return for the shared buffer besides NULL
SharedBufSamples == {12582912}

\* What a read of an uninitialized UINT64 local may give
Uninitialized == {0, 7}

\* The period the timer is programmed to when the driver starts
TimerPeriods == {100000}

-----------------------------------------------------------------------------
(* RiscVCoVEDxe.c: the exit handlers.  Each gives the status it returns, *)
(* the monitor calls it issues, its writes to the guest register area,   *)
(* its device accesses and what it stores in the driver's statics.       *)

Outcome(status, plan, gpr, mmio, share, hBase, stop, undef) ==
  [Status |-> status, plan |-> plan, gpr |-> gpr, mmio |-> mmio,
   share |-> share, hBase |-> hBase, stop |-> stop, undef |-> undef]

\* if (mTvmRunBlock) { RunTvmVcpu; ASSERT; mTvmRunBlock = Ret.Value; TvmFence }
RunBlockedVcpu(runOk, value, fenceOk) ==
  IF mTvmRunBlock
  THEN << SbiCallOf("RunTvmVcpu", 0, 0, 0, runOk, value, TRUE),
          SbiCallOf("TvmFence", 0, 0, 0, fenceOk, 0, FALSE) >>
  ELSE << >>

RiscVCoVEHandleGuestRequest(runOk, value, fenceOk) ==
  LET a0   == GuestGprs[10]
      a1   == GuestGprs[11]
      a6   == GuestGprs[16]
      plan == RunBlockedVcpu(runOk, value, fenceOk)
  IN  CASE a6 = 0 ->
             Outcome(IF RiscVCoVEMmioRegionCheck(a0, a1)
                     THEN "EFI_SUCCESS" ELSE "EFI_ACCESS_DENIED",
                     plan, <<>>, <<>>, FALSE, mHostSharedMemoryBase,
                     FALSE, FALSE)
        [] a6 = 1 ->
             Outcome("EFI_SUCCESS", plan, <<>>, <<>>, FALSE,
                     mHostSharedMemoryBase, FALSE, FALSE)
        [] a6 = 2 ->
             IF mHostSharedMemoryBase # NULL
             THEN Outcome("EFI_ALREADY_STARTED", plan, <<>>, <<>>, TRUE,
                          mHostSharedMemoryBase, FALSE, FALSE)
             ELSE IF a1 > MM_VM_RAM_MM_SHARED_BUF_SIZE
             THEN Outcome("EFI_SUCCESS", plan, <<>>, <<>>, TRUE,
                          mHostSharedMemoryBase, FALSE, FALSE)
             ELSE Outcome("EFI_SUCCESS", plan,
                          <<[idx |-> 10, val |-> 0]>>, <<>>, TRUE,
                          mHostSharedMemoryBase, FALSE, FALSE)
        [] a6 = 3 ->
             \* ASSERT (FALSE)
             Outcome("EFI_SUCCESS", IF assertOn THEN <<>> ELSE plan, <<>>,
                     <<>>, FALSE, mHostSharedMemoryBase, assertOn, FALSE)
        [] OTHER ->
             Outcome("EFI_NOT_FOUND", plan, <<>>, <<>>, FALSE,
                     mHostSharedMemoryBase, FALSE, FALSE)

\* case EXT_PUT_CHAR
PutChar(ok) ==
  Outcome("EFI_SUCCESS",
          << SbiCallOf("PutChar", 0, 0, 0, ok, 0, TRUE) >>,
          IF ok \/ ~assertOn THEN <<[idx |-> 10, val |-> 0]>> ELSE <<>>,
          <<>>, FALSE, mHostSharedMemoryBase, FALSE, FALSE)

\* A window fault handler that allocates and maps on every fault.
SharedWindowFault_everyFault(alloc, ok) ==
  IF alloc = NULL
  THEN Outcome("EFI_SUCCESS", <<>>, <<>>, <<>>, FALSE, NULL, assertOn,
               ~assertOn)
  ELSE Outcome("EFI_SUCCESS",
               << SbiCallOf("AddTvmSharedPages", alloc,
                            MM_VM_RAM_MM_SHARED_BUF_SIZE \div SIZE_4KB,
                            MM_VM_RAM_BASE
                              + WordsOf(MM_VM_RAM_MM_SHARED_BUF_OFFSET),
                            ok, 0, TRUE) >>,
               <<>>, <<>>, FALSE, alloc, FALSE, FALSE)

\* A fault inside the shared-buffer window: on the first one the buffer is
\* allocated and mapped into the TVM.  With the allocation failed the
\* ASSERT stops the driver, and without the ASSERT SetMem writes through
\* the null pointer.
SharedWindowFault(alloc, ok) ==
  IF mHostSharedMemoryBase # NULL
  THEN Outcome("EFI_SUCCESS", <<>>, <<>>, <<>>, FALSE,
               mHostSharedMemoryBase, FALSE, FALSE)
  ELSE IF alloc = NULL
  THEN Outcome("EFI_SUCCESS", <<>>, <<>>, <<>>, FALSE, NULL, assertOn,
               ~assertOn)
  ELSE Outcome("EFI_SUCCESS",
               << SbiCallOf("AddTvmSharedPages", alloc,
                            MM_VM_RAM_MM_SHARED_BUF_SIZE \div SIZE_4KB,
                            MM_VM_RAM_BASE
                              + WordsOf(MM_VM_RAM_MM_SHARED_BUF_OFFSET),
                            ok, 0, TRUE) >>,
               <<>>, <<>>, FALSE, alloc, FALSE, FALSE)

\* A handler that compares the cause without its top bit.
RiscVCoVEException_lowBits(ok, value, alloc, DevVal) ==
  LET none == Outcome("EFI_INVALID_PARAMETER", <<>>, <<>>, <<>>, FALSE,
                      mHostSharedMemoryBase, FALSE, FALSE)
      FaultAddr == FaultAddrOf(HtVal, Stval)
  IN  IF Scause.code = EcallScause.code
      THEN CASE GuestGprs[17] = EXT_COVE_GUEST ->
                  RiscVCoVEHandleGuestRequest(ok[1], value, ok[2])
             [] GuestGprs[17] = EXT_PUT_CHAR -> PutChar(ok[1])
             [] OTHER -> none
      ELSE IF Scause.code \in {LoadFaultScause.code, StoreFaultScause.code}
      THEN IF /\ FaultAddr.w >= MM_VM_RAM_BASE
                   + WordsOf(MM_VM_RAM_MM_SHARED_BUF_OFFSET)
              /\ FaultAddr.w < MM_VM_RAM_BASE
                   + WordsOf(MM_VM_RAM_MM_SHARED_BUF_OFFSET
                             + MM_VM_RAM_MM_SHARED_BUF_SIZE)
           THEN SharedWindowFault(alloc, ok[1])
           ELSE IF RiscVCoVEMmioRegionCheck(FaultAddr, 0)
           THEN LET m == RiscVCoVEHandleMmioAccess(HtInst, FaultAddr,
                                                   GuestGprs, DevVal)
                IN  Outcome(m.Status, <<>>, m.gpr, m.mmio, FALSE,
                            mHostSharedMemoryBase, FALSE, FALSE)
           ELSE none
      ELSE none

\* A handler that takes every exit as serviced.
RiscVCoVEException_allServiced(ok, value, alloc, DevVal) ==
  Outcome("EFI_SUCCESS", <<>>, <<>>, <<>>, FALSE, mHostSharedMemoryBase,
          FALSE, FALSE)

RiscVCoVEException(ok, value, alloc, DevVal) ==
  LET none == Outcome("EFI_INVALID_PARAMETER", <<>>, <<>>, <<>>, FALSE,
                      mHostSharedMemoryBase, FALSE, FALSE)
      FaultAddr == FaultAddrOf(HtVal, Stval)
  IN  IF Scause = EcallScause
      THEN CASE GuestGprs[17] = EXT_COVE_GUEST ->
                  RiscVCoVEHandleGuestRequest(ok[1], value, ok[2])
             [] GuestGprs[17] = EXT_PUT_CHAR -> PutChar(ok[1])
             [] OTHER -> none
      ELSE IF Scause \in {LoadFaultScause, StoreFaultScause}
      THEN IF /\ FaultAddr.w >= MM_VM_RAM_BASE
                   + WordsOf(MM_VM_RAM_MM_SHARED_BUF_OFFSET)
              /\ FaultAddr.w < MM_VM_RAM_BASE
                   + WordsOf(MM_VM_RAM_MM_SHARED_BUF_OFFSET
                             + MM_VM_RAM_MM_SHARED_BUF_SIZE)
           THEN SharedWindowFault(alloc, ok[1])
           ELSE IF RiscVCoVEMmioRegionCheck(FaultAddr, 0)
           THEN LET m == RiscVCoVEHandleMmioAccess(HtInst, FaultAddr,
                                                   GuestGprs, DevVal)
                IN  Outcome(m.Status, <<>>, m.gpr, m.mmio, FALSE,
                            mHostSharedMemoryBase, FALSE, FALSE)
           ELSE none
      ELSE none

-----------------------------------------------------------------------------
(* RiscVCoVEDxe.c: the driver's steps after StandaloneMmInitialization *)

\* Register Shmem, then trigger MM to initialize its resource.  With the
\* allocation failed the ASSERT stops the driver; without the ASSERT the
\* null ShmemPtr is dereferenced by the first exit handler.
RegisterShmem ==
  /\ pc = "RegisterShmem"
  /\ \E ShmemPtr \in {NULL, 1}, ok \in BOOLEAN :
       LET r == Exec(Hist,
                  IF ShmemPtr = NULL /\ assertOn THEN << >>
                  ELSE << SbiCallOf("NaclSetShmem", 0, 0, 0, ok, 0, TRUE) >>)
       IN  Commit(r, ShmemPtr = NULL /\ assertOn,
                  IF ShmemPtr = NULL THEN "Undefined" ELSE "TriggerMM")
  /\ caller' = "init"
  /\ UNCHANGED <<buildVars, faultVars, commVars, chanVars, mmVars, platVars, initVars, drvVars, Status, TimerPeriod,
                 hwTimerPeriod, exitVars, mmioLog, gprLog, declaredMmio,
                 declaredShared>>

\* Make sure timer disabled; Status = EFI_SUCCESS.  Both timer calls sit in
\* ASSERT_EFI_ERROR: without assertions they are not made and TimerPeriod
\* stays uninitialized (-1 here), as it does when there is no timer protocol.
RiscVTriggerMM ==
  /\ pc = "TriggerMM"
  /\ \E ok \in [1..2 -> BOOLEAN] :
       LET read == gTimerAp # NULL /\ assertOn
           tp   == IF read /\ ok[1] THEN hwTimerPeriod ELSE -1
           set  == read /\ ok[1] /\ tp # 0
           stop == (read /\ ~ok[1]) \/ (set /\ ~ok[2])
       IN  /\ TimerPeriod' = tp
           /\ hwTimerPeriod' = IF set /\ ok[2] THEN 0 ELSE hwTimerPeriod
           /\ pc' = IF stop THEN "Halt" ELSE "Run"
  /\ Status' = "EFI_SUCCESS"
  /\ sbi' = <<>> /\ mmioLog' = <<>> /\ gprLog' = <<>>
  /\ UNCHANGED <<buildVars, faultVars, commVars, chanVars, mmVars, platVars, initVars, drvVars, caller, exitVars, histVars>>

\* The body of the do-while loop: run the VCPU until it exits.  A call the
\* monitor refuses leaves the exit registers as they were.
RunTvmVcpu ==
  /\ pc = "Run"
  /\ \E ok \in BOOLEAN :
     \E e \in (IF ok THEN Exits
               ELSE {ExitOf(Scause, HtVal, Stval, HtInst, GuestGprs, 0)}) :
       LET r == Exec(Hist, << SbiCallOf("RunTvmVcpu", 0, 0, 0, ok, e.Value,
                                        TRUE) >>)
       IN  /\ Commit(r, FALSE, "Exception")
           /\ Status' = IF ~ok /\ ~r.halted THEN "EFI_DEVICE_ERROR"
                        ELSE Status
           /\ mTvmRunBlock' = IF r.halted THEN mTvmRunBlock
                              ELSE ToBoolean(e.Value)
           /\ Scause' = e.Scause /\ HtVal' = e.HtVal /\ Stval' = e.Stval
           /\ HtInst' = e.HtInst /\ GuestGprs' = e.GuestGprs
  /\ mmioLog' = <<>> /\ gprLog' = <<>>
  /\ UNCHANGED <<buildVars, faultVars, commVars, chanVars, mmVars, platVars, initVars, mTvmGuestId, mGuestSharedMemoryBase,
                 mGuestSharedMemorySize, mHostSharedMemoryBase, gTimerAp,
                 caller, TimerPeriod, hwTimerPeriod, ExcStatus, declaredMmio,
                 declaredShared>>

\* A loop that goes on only after EFI_SUCCESS.
Exception_stopsOnError ==
  /\ pc = "Exception"
  /\ \E ok \in (IF Scause = EcallScause \/ mHostSharedMemoryBase = NULL
                  THEN [1..2 -> BOOLEAN] ELSE {[i \in 1..2 |-> TRUE]}),
        value \in (IF mTvmRunBlock THEN RunValues ELSE {0}),
        alloc \in (IF mHostSharedMemoryBase = NULL
                   THEN {NULL} \cup SharedBufSamples ELSE {NULL}),
        DevVal \in (IF Scause = LoadFaultScause THEN DevVals ELSE {0}) :
       LET o        == RiscVCoVEException(ok, value, alloc, DevVal)
           request  == Scause = EcallScause
                         /\ GuestGprs[17] = EXT_COVE_GUEST
           region   == [base |-> GuestGprs[10], size |-> GuestGprs[11]]
           accepted == request /\ GuestGprs[16] = 2 /\ o.gpr # <<>>
           r        == Exec([Hist EXCEPT !.unfenced = @ \/ accepted], o.plan)
           reran    == /\ ~r.halted
                       /\ Len(r.calls) >= 1
                       /\ r.calls[1].fn = "RunTvmVcpu"
       IN  /\ Commit(r, o.stop,
                     IF o.undef THEN "Undefined"
                     ELSE IF o.Status = "EFI_SUCCESS" THEN "Run"
                     ELSE "TriggerExit")
           /\ ExcStatus' = o.Status
           /\ gprLog' = o.gpr
           /\ mmioLog' = o.mmio
           /\ GuestGprs' = ApplyGprWrites(GuestGprs, o.gpr)
           /\ mGuestSharedMemoryBase' =
                IF o.share THEN GuestGprs[10] ELSE mGuestSharedMemoryBase
           /\ mGuestSharedMemorySize' =
                IF o.share THEN GuestGprs[11] ELSE mGuestSharedMemorySize
           /\ mHostSharedMemoryBase' = o.hBase
           /\ mTvmRunBlock' = IF reran THEN ToBoolean(value)
                              ELSE mTvmRunBlock
           /\ declaredMmio' =
                IF request /\ GuestGprs[16] = 0
                THEN declaredMmio \cup {region}
                ELSE IF request /\ GuestGprs[16] = 1
                THEN declaredMmio \ {region}
                ELSE declaredMmio
           /\ declaredShared' =
                IF accepted THEN declaredShared \cup {region}
                ELSE declaredShared
  /\ UNCHANGED <<buildVars, faultVars, commVars, chanVars, mmVars, platVars, initVars, mTvmGuestId, gTimerAp, runVars, HtVal,
                 HtInst, Scause, Stval>>

\* The condition of the do-while loop: RiscVCoVEException on scause, and the
\* loop goes on unless it returned EFI_INVALID_PARAMETER
Exception ==
  /\ pc = "Exception"
  /\ \E ok \in (IF Scause = EcallScause \/ mHostSharedMemoryBase = NULL
                  THEN [1..2 -> BOOLEAN] ELSE {[i \in 1..2 |-> TRUE]}),
        value \in (IF mTvmRunBlock THEN RunValues ELSE {0}),
        alloc \in (IF mHostSharedMemoryBase = NULL
                   THEN {NULL} \cup SharedBufSamples ELSE {NULL}),
        DevVal \in (IF Scause = LoadFaultScause THEN DevVals ELSE {0}) :
       LET o        == RiscVCoVEException(ok, value, alloc, DevVal)
           request  == Scause = EcallScause
                         /\ GuestGprs[17] = EXT_COVE_GUEST
           region   == [base |-> GuestGprs[10], size |-> GuestGprs[11]]
           accepted == request /\ GuestGprs[16] = 2 /\ o.gpr # <<>>
           r        == Exec([Hist EXCEPT !.unfenced = @ \/ accepted], o.plan)
           reran    == /\ ~r.halted
                       /\ Len(r.calls) >= 1
                       /\ r.calls[1].fn = "RunTvmVcpu"
       IN  /\ Commit(r, o.stop,
                     IF o.undef THEN "Undefined"
                     ELSE IF o.Status # "EFI_INVALID_PARAMETER" THEN "Run"
                     ELSE "TriggerExit")
           /\ ExcStatus' = o.Status
           /\ gprLog' = o.gpr
           /\ mmioLog' = o.mmio
           /\ GuestGprs' = ApplyGprWrites(GuestGprs, o.gpr)
           /\ mGuestSharedMemoryBase' =
                IF o.share THEN GuestGprs[10] ELSE mGuestSharedMemoryBase
           /\ mGuestSharedMemorySize' =
                IF o.share THEN GuestGprs[11] ELSE mGuestSharedMemorySize
           /\ mHostSharedMemoryBase' = o.hBase
           /\ mTvmRunBlock' = IF reran THEN ToBoolean(value)
                              ELSE mTvmRunBlock
           /\ declaredMmio' =
                IF request /\ GuestGprs[16] = 0
                THEN declaredMmio \cup {region}
                ELSE IF request /\ GuestGprs[16] = 1
                THEN declaredMmio \ {region}
                ELSE declaredMmio
           /\ declaredShared' =
                IF accepted THEN declaredShared \cup {region}
                ELSE declaredShared
  /\ UNCHANGED <<buildVars, faultVars, commVars, chanVars, mmVars, platVars, initVars, mTvmGuestId, gTimerAp, runVars, HtVal,
                 HtInst, Scause, Stval>>

\* After the loop: restore the timer, return Status to the caller.  The
\* read of an uninitialized TimerPeriod gives any value.
TriggerExit ==
  /\ pc = "TriggerExit"
  /\ \E ok \in BOOLEAN,
        period \in (IF TimerPeriod = -1 THEN Uninitialized
                    ELSE {TimerPeriod}) :
       LET set == period # 0 /\ assertOn
       IN  /\ hwTimerPeriod' = IF set /\ gTimerAp # NULL /\ ok
                               THEN period ELSE hwTimerPeriod
           /\ pc' = IF set /\ gTimerAp = NULL THEN "Undefined"
                    ELSE IF set /\ ~ok THEN "Halt"
                    ELSE IF caller = "init" THEN "Finish"
                    ELSE "Idle"
  /\ TimerPeriod' = 0
  /\ sbi' = <<>> /\ mmioLog' = <<>> /\ gprLog' = <<>>
  /\ UNCHANGED <<buildVars, faultVars, commVars, chanVars, mmVars, platVars, initVars, drvVars, caller, Status, exitVars,
                 histVars>>

\* RiscVCoVEDxeInitialize after the first RiscVTriggerMM: register the
\* MmCommunicate2 protocol
Finish ==
  /\ pc = "Finish"
  /\ pc' = IF Status # "EFI_SUCCESS" THEN "Done"
           ELSE IF mHostSharedMemoryBase = NULL /\ assertOn THEN "Halt"
           ELSE "Idle"
  /\ sbi' = <<>> /\ mmioLog' = <<>> /\ gprLog' = <<>>
  /\ UNCHANGED <<buildVars, faultVars, commVars, chanVars, mmVars, platVars, initVars, drvVars, runVars, exitVars, histVars>>

\* MmCommunication2Communicate: a later request triggers MM again
Communicate ==
  /\ pc = "Idle"
  /\ pc' = "TriggerMM"
  /\ caller' = "comm"
  /\ sbi' = <<>> /\ mmioLog' = <<>> /\ gprLog' = <<>>
  /\ UNCHANGED <<buildVars, faultVars, commVars, chanVars, mmVars, platVars, initVars, drvVars, Status, TimerPeriod,
                 hwTimerPeriod, exitVars, histVars>>

-----------------------------------------------------------------------------
(* Spec: the host driver from RiscVCoVEDxeInitialize on *)

\* Build and platform: assertions on or off, the number of other harts, the
\* PCDs, the timer protocol found or not
Init ==
  /\ pc = "Entry"
  /\ assertOn \in BOOLEAN
  /\ otherHarts \in 0..MaxOtherHarts
  /\ FvSize \in FvSizeSamples
  /\ MemSizePcd \in {SIZE_32MB, 16777217}
  /\ gTimerAp \in {NULL, 1}
  /\ hwTimerPeriod \in (IF gTimerAp = NULL THEN {0} ELSE TimerPeriods)
  /\ TsmInfo = NoTsmInfo
  /\ MmBase = 0 /\ MmSize = 0 /\ PageStart = 0 /\ StackBottom = 0
  /\ HeapStart = 0 /\ MmTvmSize = 0 /\ NumPtePages = 0
  /\ InitStatus = "none"
  /\ mTvmGuestId = 0 /\ mTvmRunBlock = FALSE
  /\ mGuestSharedMemoryBase = 0 /\ mGuestSharedMemorySize = 0
  /\ mHostSharedMemoryBase = NULL
  /\ caller = "none" /\ Status = "none" /\ TimerPeriod = 0
  /\ GuestGprs = ZeroGprs /\ HtVal = 0 /\ HtInst = 0 /\ Scause = NoScause
  /\ Stval = 0 /\ ExcStatus = "none" /\ FaultAddrU64 = NoFaultAddr
  /\ MmQuiet /\ CommQuiet /\ ChanQuiet
  /\ sbi = <<>> /\ mmioLog = <<>> /\ gprLog = <<>>
  /\ finalizeCount = 0 /\ tsmPending = {} /\ tsmConfidential = {}
  /\ declaredMmio = {} /\ declaredShared = {}
  /\ unfenced = FALSE

Next ==
  \/ InitEntry
  \/ InitCreateTvm
  \/ InitCreateTvmVcpu
  \/ InitAddPageTables
  \/ InitAddMemoryRegion
  \/ InitBootInfo
  \/ InitStack
  \/ InitHeap
  \/ InitFv
  \/ InitRemaining
  \/ InitFinalize
  \/ InitZeroPages
  \/ RegisterShmem
  \/ RiscVTriggerMM
  \/ RunTvmVcpu
  \/ Exception
  \/ TriggerExit
  \/ Finish
  \/ Communicate

Spec == Init /\ [][Next]_vars

-----------------------------------------------------------------------------
(* Properties of the host driver, checked under Spec *)

\* C1: FinalizeTvm is issued at most once, and exactly once when
\* StandaloneMmInitialization succeeded; AddTvmMemoryRegion,
\* AddTvmMeasuredPages and CreateTvmVcpu are issued only before it;
\* AddTvmZeroPages, AddTvmSharedPages and RunTvmVcpu only after it.
C1_FinalizeOnce ==
  /\ finalizeCount <= 1
  /\ InitStatus = "EFI_SUCCESS" => finalizeCount = 1
  /\ \A i \in 1..Len(sbi) :
       /\ sbi[i].fn \in {"FinalizeTvm", "AddTvmMemoryRegion",
                         "AddTvmMeasuredPages", "CreateTvmVcpu"}
            => sbi[i].pre.fin = 0
       /\ sbi[i].fn \in {"AddTvmZeroPages", "AddTvmSharedPages",
                         "RunTvmVcpu"}
            => sbi[i].pre.fin = 1

\* C1 witness: in a later RiscVTriggerMM run the VCPU was run, after the
\* one FinalizeTvm of a successful initialization.
C1_Witness ==
  /\ pc = "Exception"
  /\ caller = "comm"
  /\ InitStatus = "EFI_SUCCESS"
  /\ finalizeCount = 1
  /\ Len(sbi) = 1
  /\ sbi[1].fn = "RunTvmVcpu"
  /\ sbi[1].pre.fin = 1

\* C2: every page the host assigns to the TVM (CreateTvm, CreateTvmVcpu,
\* AddTvmPageTablePages, the destination of AddTvmMeasuredPages,
\* AddTvmZeroPages) lies, when the assigning call is issued, in a range that
\* was passed to ConvertPages and whose conversion was completed by a
\* successful GlobalFence and a LocalFence on every other hart.
C2_ConvertedBeforeAssigned ==
  \A i \in 1..Len(sbi) :
    sbi[i].fn \in {"CreateTvm", "CreateTvmVcpu", "AddTvmPageTablePages",
                   "AddTvmMeasuredPages", "AddTvmZeroPages"}
      => sbi[i].pre.conv

\* C3: no RunTvmVcpu is issued while an accepted AddSharedMemory request
\* still awaits its TvmFence.
C3_FenceBeforeRun ==
  \A i \in 1..Len(sbi) :
    sbi[i].fn = "RunTvmVcpu" => ~sbi[i].pre.unfenced

\* C4: once RunTvmVcpu returned a non-zero value (kept in mTvmRunBlock), no
\* step of the driver issues RunTvmVcpu again, neither the RiscVTriggerMM
\* loop nor RiscVCoVEHandleGuestRequest.
C4_NoRunAfterTerminal ==
  [][mTvmRunBlock => \A i \in 1..Len(sbi') : sbi'[i].fn # "RunTvmVcpu"]_vars

\* C5: on a load/store guest page fault the handler accesses the device only
\* when [FaultAddr, FaultAddr + width) lies in a region the guest declared
\* with AddMmioRegion and has not removed; a fault anywhere else outside the
\* shared-buffer window makes no access and returns EFI_INVALID_PARAMETER.
C5_MmioOnlyDeclared ==
  [][(pc = "Exception" /\ Scause \in {LoadFaultScause, StoreFaultScause}) =>
       LET w        == HtVal
           low      == Stval % 4
           inWindow == w >= WindowFirst /\ w < WindowEnd
           inside(width) ==
             \E d \in declaredMmio :
               /\ w >= d.base
               /\ 4 * (w - d.base) + low + width <= d.size
       IN  /\ \A i \in 1..Len(mmioLog') : inside(mmioLog'[i].size)
           /\ (~inWindow /\ ~inside(1)) =>
                (mmioLog' = <<>> /\ ExcStatus' = "EFI_INVALID_PARAMETER")
    ]_vars

\* C6: AddTvmSharedPages is issued only for a guest-physical range that lies
\* inside a region the guest declared by an accepted AddSharedMemory request.
C6_SharedPagesDeclared ==
  \A i \in 1..Len(sbi) :
    sbi[i].fn = "AddTvmSharedPages" =>
      \E d \in declaredShared :
        /\ d.base <= sbi[i].gpa
        /\ sbi[i].gpa + WordsOf(sbi[i].pages * SIZE_4KB)
             <= d.base + WordsOf(d.size)

\* C7: once an AddSharedMemory request was accepted, every further
\* AddSharedMemory request returns EFI_ALREADY_STARTED and is not accepted
\* (a0 is not set to 0).  The driver has no path that releases a
\* declaration, so the clause about a request after the release has no case.
C7_SecondShareRejected ==
  [][(/\ pc = "Exception"
      /\ Scause = EcallScause
      /\ GuestGprs[17] = EXT_COVE_GUEST
      /\ GuestGprs[16] = 2
      /\ declaredShared # {})
       => (ExcStatus' = "EFI_ALREADY_STARTED" /\ gprLog' = <<>>)]_vars

-----------------------------------------------------------------------------
(* SpecFault: the page-fault branch of RiscVCoVEException with HTVAL and    *)
(* stval taken over all 64 bits.  In this specification HtVal, Stval and    *)
(* the address of a device access are UINT64 limbs.                         *)

\* HTVAL: the shared-buffer window (0x80100000 >> 2), the word after it
\* (0x80200000 >> 2), a device register, and the same with bits above bit 31
\* and with the two top bits set
HtVal64Samples ==
  { <<l0, l1, l2, l3>> :
      l0 \in {0, 65535}, l1 \in {0, 8196, 8200, 65535},
      l2 \in {0, 49152}, l3 \in {0, 16384, 65535} }

\* stval: every value of its two low bits, with and without bits above them
Stval64Samples ==
  { <<l0, up, up, up>> : l0 \in {0, 1, 2, 3, 4, 7, 65535}, up \in {0, 65535} }

\* MM_VM_RAM_BASE + MM_VM_RAM_MM_SHARED_BUF_OFFSET and the end of the window,
\* as byte addresses
WindowFirst64 == Shl64(ToUint64(WindowFirst), 2)
WindowEnd64 == Shl64(ToUint64(WindowEnd), 2)

InitFault ==
  /\ pc = "fault"
  /\ HtVal \in HtVal64Samples
  /\ Stval \in Stval64Samples
  /\ \E load \in BOOLEAN :
       /\ Scause = (IF load THEN LoadFaultScause ELSE StoreFaultScause)
       /\ HtInst = (IF load THEN Encode(3, 0, 10, 2, 0)
                    ELSE Encode(3, 8, 0, 2, 10))
  /\ GuestGprs = SeedGprs
  /\ InitQuiet

\* if (InterruptType == EXCEPT_RISCV_LOAD_GUEST_PAGE_FAULT || ... STORE ...)
PageFault64 ==
  /\ pc = "fault"
  /\ \E ok \in BOOLEAN, alloc \in {NULL} \cup SharedBufSamples,
        DevVal \in (IF Scause = LoadFaultScause THEN DevVals ELSE {0}) :
       \E Addr \in {FaultAddr64(HtVal, Stval)} :
       LET none == Outcome("EFI_INVALID_PARAMETER", <<>>, <<>>, <<>>, FALSE,
                           mHostSharedMemoryBase, FALSE, FALSE)
           o    == IF ~Less64(Addr, WindowFirst64) /\ Less64(Addr, WindowEnd64)
                   THEN SharedWindowFault(alloc, ok)
                   ELSE IF RiscVCoVEMmioRegionCheck(Addr, 0)
                   THEN LET m == RiscVCoVEHandleMmioAccess(HtInst, Addr,
                                                           GuestGprs, DevVal)
                        IN  Outcome(m.Status, <<>>, m.gpr, m.mmio, FALSE,
                                    mHostSharedMemoryBase, FALSE, FALSE)
                   ELSE none
           r    == Exec(Hist, o.plan)
       IN  /\ FaultAddrU64' = Addr
           /\ Commit(r, o.stop,
                     IF o.undef THEN "Undefined" ELSE "fault_done")
           /\ ExcStatus' = o.Status
           /\ gprLog' = o.gpr
           /\ mmioLog' = o.mmio
           /\ GuestGprs' = ApplyGprWrites(GuestGprs, o.gpr)
           /\ mHostSharedMemoryBase' = o.hBase
  /\ UNCHANGED <<buildVars, commVars, chanVars, mmVars, platVars, initVars, mTvmGuestId, mTvmRunBlock,
                 mGuestSharedMemoryBase, mGuestSharedMemorySize, gTimerAp,
                 runVars, HtVal, HtInst, Scause, Stval, declaredMmio,
                 declaredShared>>

NextFault == PageFault64

SpecFault == InitFault /\ [][NextFault]_vars

\* Bit i of a UINT64
Bit64(a, i) == (a[(i \div LimbBits) + 1] \div (2 ^ (i % LimbBits))) % 2

\* C11: after a guest load/store page fault was handled, bits 0 and 1 of the
\* fault address are bits 0 and 1 of stval and bit i (2 <= i <= 63) is bit
\* i - 2 of HTVAL, for every HTVAL and stval; the fault is taken as a fault
\* in the shared-buffer window exactly when that address lies in
\* [0x80100000, 0x80200000), and a device access is made at that address.
C11_FaultAddr64 ==
  (pc # "fault") =>
    /\ \A i \in 0..63 :
         Bit64(FaultAddrU64, i) =
           (IF i < 2 THEN Bit64(Stval, i) ELSE Bit64(HtVal, i - 2))
    /\ \A k \in 1..Len(mmioLog) : mmioLog[k].addr = FaultAddrU64
    /\ LET inWindow == /\ FaultAddrU64[4] = 0 /\ FaultAddrU64[3] = 0
                       /\ FaultAddrU64[2] \in 32784..32799
       IN  IF inWindow THEN mmioLog = <<>> ELSE Len(mmioLog) = 1

\* C11 witness: HTVAL with bit 62 set and stval = 7 gave the address
\* 0x80100003, inside the window.
C11_Witness ==
  /\ pc = "fault_done"
  /\ HtVal = <<0, 8196, 0, 16384>>
  /\ Stval[1] = 7
  /\ FaultAddrU64 = <<3, 32784, 0, 0>>
  /\ mmioLog = <<>>

-----------------------------------------------------------------------------
(* Claims about the exit loop of RiscVTriggerMM *)

C13_UnshareFatal ==
  [][ (/\ pc = "Exception" /\ Scause = EcallScause
       /\ GuestGprs[17] = EXT_COVE_GUEST /\ GuestGprs[16] = 3) =>
        /\ pc' = "Halt"
        /\ \A k \in 1..Len(sbi') : sbi'[k].fn # "RunTvmVcpu" ]_vars

\* C19: no result of a monitor call is dropped: a call the monitor refused
\* is the last call the driver issued, and the driver then stopped on an
\* ASSERT or returned.
C19_NoResultIgnored ==
  \A k \in 1..Len(sbi) :
    ~sbi[k].ok => (k = Len(sbi) /\ pc \in {"Halt", "Done"})

\* C20: RiscVTriggerMM returns EFI_SUCCESS only when the loop was left on a
\* virtual-instruction exit (and every SbiCoVHRunTvmVcpu succeeded); a trap
\* that could not be serviced gives an error status.
C20_ErrorsPropagate ==
  (pc = "TriggerExit" /\ Status = "EFI_SUCCESS") =>
    Scause = VirtualInstructionScause

-----------------------------------------------------------------------------
(* MPXY message transport: SbiMpxySendMessage of CommonRiscvMpxy.c and of   *)
(* DxeRiscvMpxy.c                                                           *)

MPXY_SHMEM_SIZE == 4096

\* What SbiCall (SBI_EXT_MPXY, SBI_EXT_MPXY_SEND_MSG_WITH_RESP, ...) can give:
\* Ret.Error with the status TranslateError makes of it, Ret.Value, and the
\* response the firmware left in the shared memory
SbiRets(datas) ==
  { [Error |-> e[1], Status |-> e[2], Value |-> v, data |-> d] :
      e \in { <<"SBI_SUCCESS", "EFI_SUCCESS">>,
              <<"SBI_ERR_FAILED", "EFI_DEVICE_ERROR">> },
      v \in {0, 16}, d \in datas }

\* A caller that passes no response buffer (Response == NULL)
NullBuffer == [null |-> TRUE]

\* A size check that lets a message of gShmemSize bytes through.
SbiMpxySendMessage_offByOne(lib, MessageId, Message, MessageDataLen, Response, Ret) ==
  IF ~gShmemSet
  THEN [Status |-> "EFI_DEVICE_ERROR", shmem |-> shmem, calls |-> <<>>,
        Response |-> Response, lenWritten |-> FALSE]
  ELSE IF MessageDataLen > gShmemSize
  THEN [Status |-> "EFI_INVALID_PARAMETER", shmem |-> shmem, calls |-> <<>>,
        Response |-> Response, lenWritten |-> FALSE]
  ELSE LET copy == Ret.Error = "SBI_SUCCESS" /\ Response # NullBuffer
       IN  [Status |-> Ret.Status,
            shmem |-> IF Ret.Error = "SBI_SUCCESS" /\ Ret.Value > 0
                      THEN [len |-> Ret.Value, data |-> Ret.data]
                      ELSE IF MessageDataLen > 0
                      THEN [len |-> MessageDataLen, data |-> Message]
                      ELSE shmem,
            calls |-> << [fn |-> "MpxySendMsgWithResp", id |-> MessageId,
                          len |-> MessageDataLen, msg |-> Message] >>,
            Response |-> IF copy /\ Ret.Value > 0 THEN Ret.data
                         ELSE Response,
            lenWritten |-> copy /\ lib = "Common"]

\* SbiMpxySendMessage.  'Response' is what the caller's response buffer holds
\* (NULL: no buffer); the result gives the status, the shared memory, the
\* SBI call made, the response buffer and whether *ResponseLen was written
\* (only CommonRiscvMpxy.c writes it).
SbiMpxySendMessage(lib, MessageId, Message, MessageDataLen, Response, Ret) ==
  IF ~gShmemSet
  THEN [Status |-> "EFI_DEVICE_ERROR", shmem |-> shmem, calls |-> <<>>,
        Response |-> Response, lenWritten |-> FALSE]
  ELSE IF MessageDataLen >= gShmemSize
  THEN [Status |-> "EFI_INVALID_PARAMETER", shmem |-> shmem, calls |-> <<>>,
        Response |-> Response, lenWritten |-> FALSE]
  ELSE LET copy == Ret.Error = "SBI_SUCCESS" /\ Response # NullBuffer
       IN  [Status |-> Ret.Status,
            shmem |-> IF Ret.Error = "SBI_SUCCESS" /\ Ret.Value > 0
                      THEN [len |-> Ret.Value, data |-> Ret.data]
                      ELSE IF MessageDataLen > 0
                      THEN [len |-> MessageDataLen, data |-> Message]
                      ELSE shmem,
            calls |-> << [fn |-> "MpxySendMsgWithResp", id |-> MessageId,
                          len |-> MessageDataLen, msg |-> Message] >>,
            Response |-> IF copy /\ Ret.Value > 0 THEN Ret.data
                         ELSE Response,
            lenWritten |-> copy /\ lib = "Common"]

\* Everything of the host driver, which the Standalone MM side leaves alone
hostVars == <<platVars, initVars, drvVars, caller, TimerPeriod, hwTimerPeriod,
              exitVars, faultVars, commVars, chanVars, mmioLog, gprLog, histVars>>

InitMpxy ==
  /\ pc = "mpxy"
  /\ HtVal = 0 /\ HtInst = 0 /\ Stval = 0 /\ Scause = NoScause
  /\ GuestGprs = ZeroGprs
  /\ InitQuiet

\* SbiMpxySetShmem was not called or failed, or it set a shared memory of a
\* small or of the usual size
MpxySetShmem ==
  /\ pc = "mpxy"
  /\ \E set \in BOOLEAN, ShmemSize \in {16, MPXY_SHMEM_SIZE} :
       /\ gShmemSet' = set
       /\ gShmemSize' = IF set THEN ShmemSize ELSE 0
  /\ pc' = "mpxy_send"
  /\ UNCHANGED <<buildVars, hostVars, Status, sbi, shmem, InputBuffer,
                 MmReqFwdResp, EventCompleteSvcArgs, evLog>>

MpxySend ==
  /\ pc = "mpxy_send"
  /\ \E lib \in {"Common", "Dxe"},
        MessageDataLen \in {0, 15, 16, 17, 4095, 4096, 4097},
        Response \in {NullBuffer, [Arg0 |-> 7, Arg1 |-> 7]},
        Ret \in SbiRets({[Arg0 |-> 8, Arg1 |-> 8]}) :
       LET r == SbiMpxySendMessage(lib, "MessageId", "Message",
                                   MessageDataLen, Response, Ret)
       IN  /\ shmem' = r.shmem
           /\ sbi' = r.calls
           /\ evLog' = << [op |-> "send", lib |-> lib,
                           MessageDataLen |-> MessageDataLen,
                           Status |-> r.Status,
                           ResponseBefore |-> Response,
                           Response |-> r.Response,
                           lenWritten |-> r.lenWritten] >>
  /\ pc' = "mpxy_done"
  /\ UNCHANGED <<buildVars, hostVars, Status, gShmemSet, gShmemSize,
                 InputBuffer, MmReqFwdResp, EventCompleteSvcArgs>>

NextMpxy == MpxySetShmem \/ MpxySend

SpecMpxy == InitMpxy /\ [][NextMpxy]_vars

\* C18: SbiMpxySendMessage of either library, called with the shared memory
\* not set, returns EFI_DEVICE_ERROR, and called with a message of
\* gShmemSize bytes or more returns EFI_INVALID_PARAMETER; in both cases the
\* shared memory is not written, no SBI call is made and the response buffer
\* and *ResponseLen are left as they were.
C18_SendFailsCleanly ==
  (pc = "mpxy_done") =>
    LET e == evLog[1]
        clean == /\ shmem = NoData /\ sbi = <<>>
                 /\ e.Response = e.ResponseBefore /\ ~e.lenWritten
    IN  /\ ~gShmemSet => (e.Status = "EFI_DEVICE_ERROR" /\ clean)
        /\ (gShmemSet /\ e.MessageDataLen >= gShmemSize) =>
             (e.Status = "EFI_INVALID_PARAMETER" /\ clean)

\* C18 witness: a message of exactly gShmemSize bytes was refused.
C18_Witness ==
  /\ pc = "mpxy_done"
  /\ gShmemSet /\ gShmemSize = 16
  /\ evLog[1].MessageDataLen = 16
  /\ evLog[1].Status = "EFI_INVALID_PARAMETER"
  /\ evLog[1].ResponseBefore # NullBuffer

-----------------------------------------------------------------------------
(* StandaloneMmCoreEntryPoint.c: InitRiscVSmmArgs and DelegatedEventLoop,   *)
(* over the MPXY transport of CommonRiscvMpxy.c                             *)

RISCV_SMM_RET_SUCCESS == 0
RISCV_SMM_RET_NOT_SUPPORTED == -1
RISCV_SMM_RET_INVALID_PARAMS == -2
RISCV_SMM_RET_DENIED == -3
RISCV_SMM_RET_NO_MEMORY == -4

\* sizeof (RPMI_SMM_MSG_CMPL_CMD), sizeof (REQFWD_RETRIEVE_CMD)
SizeofCmplCmd == 24
SizeofRetrieveCmd == 8

\* NsCommBufMmramRange->PhysicalStart
NsCommBufPhysicalStart == 8192

\* mm_data.Arg1 of a retrieved event: the offset of its payload
Offsets == {0, 64}

\* InputBuffer is followed up to this many bytes past the buffer's start
MaxOffsetTotal == 128

\* What CpuDriverEntryPoint returns
DispatchStatuses ==
  {"EFI_SUCCESS", "EFI_INVALID_PARAMETER", "EFI_ACCESS_DENIED",
   "EFI_OUT_OF_RESOURCES", "EFI_UNSUPPORTED", "EFI_NOT_FOUND"}

\* switch (Status) in DelegatedEventLoop
SmmStatusOf(status) ==
  CASE status = "EFI_SUCCESS" -> RISCV_SMM_RET_SUCCESS
    [] status = "EFI_INVALID_PARAMETER" -> RISCV_SMM_RET_INVALID_PARAMS
    [] status = "EFI_ACCESS_DENIED" -> RISCV_SMM_RET_DENIED
    [] status = "EFI_OUT_OF_RESOURCES" -> RISCV_SMM_RET_NO_MEMORY
    [] status = "EFI_UNSUPPORTED" -> RISCV_SMM_RET_NOT_SUPPORTED
    [] OTHER -> RISCV_SMM_RET_NOT_SUPPORTED

\* A loop that retrieves the next event without completing the last one.
LoopNext_noComplete(at) ==
  CASE at = "LoopEntry" -> "Retrieve"
    [] at = "Retrieve" -> "Dispatch"
    [] at = "Dispatch" -> "Retrieve"
    [] at = "Complete" -> "Retrieve"

\* The order of the statements of DelegatedEventLoop: SendMMComplete, then
\* while (TRUE) { RetrieveReqFwdMessage; CpuDriverEntryPoint; SendMMComplete }
LoopNext(at) ==
  CASE at = "LoopEntry" -> "Retrieve"
    [] at = "Retrieve" -> "Dispatch"
    [] at = "Dispatch" -> "Complete"
    [] at = "Complete" -> "Retrieve"

\* SendMMComplete: Arg0 and Arg1 of *EventCompleteSvcArgs are set to 0, the
\* structure is sent and is also the response buffer; ASSERT (0) on an error
SendMMComplete(args, first) ==
  \E Ret \in SbiRets({[Arg0 |-> 0, Arg1 |-> 0]}) :
    LET msg == [args EXCEPT !.Arg0 = 0, !.Arg1 = 0]
        r   == SbiMpxySendMessage("Common", "REQFWD_COMPLETE_CURRENT_MESSAGE",
                                  msg, SizeofCmplCmd, msg, Ret)
    IN  /\ EventCompleteSvcArgs' = r.Response
        /\ shmem' = r.shmem
        /\ sbi' = r.calls
        /\ evLog' = << [op |-> "complete", first |-> first,
                        sent |-> r.calls # <<>>, Arg0 |-> msg.Arg0] >>
        /\ pc' = IF r.Status # "EFI_SUCCESS" /\ assertOn THEN "Halt"
                 ELSE LoopNext(pc)

InitLoop ==
  /\ pc = "InitSmmArgs"
  /\ HtVal = 0 /\ HtInst = 0 /\ Stval = 0 /\ Scause = NoScause
  /\ GuestGprs = ZeroGprs
  /\ InitQuiet

\* InitRiscVSmmArgs: open the channel, ASSERT (0) if that fails, and fill the
\* arguments.  A channel that opened has its shared memory set.
InitRiscVSmmArgs ==
  /\ pc = "InitSmmArgs"
  /\ \E opened \in BOOLEAN :
     \E set \in (IF opened THEN {TRUE} ELSE BOOLEAN) :
       /\ gShmemSet' = set
       /\ gShmemSize' = IF set THEN MPXY_SHMEM_SIZE ELSE 0
       /\ pc' = IF ~opened /\ assertOn THEN "Halt" ELSE "LoopEntry"
  /\ EventCompleteSvcArgs' = [Arg0 |-> RISCV_SMM_RET_SUCCESS, Arg1 |-> 0]
  /\ UNCHANGED <<buildVars, hostVars, Status, sbi, shmem, InputBuffer,
                 MmReqFwdResp, evLog>>

\* DelegatedEventLoop up to the loop
LoopEntry ==
  /\ pc = "LoopEntry"
  /\ Status' = "EFI_UNSUPPORTED"
  /\ InputBuffer' = NsCommBufPhysicalStart
  /\ SendMMComplete(EventCompleteSvcArgs, TRUE)
  /\ UNCHANGED <<buildVars, hostVars, gShmemSet, gShmemSize, MmReqFwdResp>>

\* RetrieveReqFwdMessage: SmmRespLen = 0, send the retrieve command with
\* MmReqFwdResp as the response buffer, ASSERT (0) on an error or when
\* SmmRespLen is still 0
LoopRetrieve ==
  /\ pc = "Retrieve"
  /\ \E Ret \in SbiRets({[Arg0 |-> 0, Arg1 |-> off] : off \in Offsets}) :
       LET r == SbiMpxySendMessage("Common",
                                   "RPMI_REQFWD_RETRIEVE_CURRENT_MESSAGE",
                                   "ReqFwdCmd", SizeofRetrieveCmd,
                                   MmReqFwdResp, Ret)
           SmmRespLen == IF r.lenWritten THEN Ret.Value ELSE 0
           failed == r.Status # "EFI_SUCCESS" \/ SmmRespLen = 0
       IN  /\ MmReqFwdResp' = r.Response
           /\ shmem' = r.shmem
           /\ sbi' = r.calls
           /\ evLog' = << [op |-> "retrieve", ok |-> ~failed] >>
           /\ pc' = IF failed /\ assertOn THEN "Halt" ELSE LoopNext(pc)
  /\ UNCHANGED <<buildVars, hostVars, Status, gShmemSet, gShmemSize,
                 InputBuffer, EventCompleteSvcArgs>>

\* InputBuffer = InputBuffer + MmReqFwdResp.mm_data.Arg1;
\* Status = CpuDriverEntryPoint (0, CpuId, InputBuffer).  MmReqFwdResp is a
\* local without initializer: not yet written, its Arg1 is any value.
LoopDispatch ==
  /\ pc = "Dispatch"
  /\ \E Arg1 \in (IF MmReqFwdResp = Unassigned THEN Offsets
                  ELSE {MmReqFwdResp.Arg1}),
        status \in DispatchStatuses :
       /\ InputBuffer + Arg1 <= NsCommBufPhysicalStart + MaxOffsetTotal
       /\ InputBuffer' = InputBuffer + Arg1
       /\ Status' = status
       /\ evLog' = << [op |-> "dispatch", retrieved |-> evLog[1].ok,
                       InputBuffer |-> InputBuffer + Arg1] >>
  /\ pc' = LoopNext(pc)
  /\ sbi' = <<>>
  /\ UNCHANGED <<buildVars, hostVars, gShmemSet, gShmemSize, shmem,
                 MmReqFwdResp, EventCompleteSvcArgs>>

\* EventCompleteSvcArgs->mm_data.Arg0 = SmmStatus; SendMMComplete
LoopComplete ==
  /\ pc = "Complete"
  /\ SendMMComplete([EventCompleteSvcArgs EXCEPT !.Arg0 = SmmStatusOf(Status)],
                    FALSE)
  /\ UNCHANGED <<buildVars, hostVars, Status, gShmemSet, gShmemSize,
                 InputBuffer, MmReqFwdResp>>

NextLoop ==
  \/ InitRiscVSmmArgs
  \/ LoopEntry
  \/ LoopRetrieve
  \/ LoopDispatch
  \/ LoopComplete

SpecLoop == InitLoop /\ [][NextLoop]_vars

\* The event loop is the only thing the Standalone MM hart runs: a step that
\* can be taken is taken
SpecLoopFair == SpecLoop /\ WF_vars(NextLoop)

\* The operation the last step performed
LastOp == IF evLog = <<>> THEN "none" ELSE evLog[1].op

\* C14: DelegatedEventLoop is sequential: the first operation is a
\* completion, a retrieval follows a completion, a dispatch follows a
\* retrieval and a completion follows a dispatch; each of them sends at most
\* one message, of its own kind, and a dispatch sends none.
C14_LoopSequential ==
  [][ (evLog' # <<>>) =>
        /\ Len(evLog') = 1
        /\ <<LastOp, LastOp'>> \in
             { <<"none", "complete">>, <<"complete", "retrieve">>,
               <<"retrieve", "dispatch">>, <<"dispatch", "complete">> }
        /\ Len(sbi') <= 1
        /\ \A k \in 1..Len(sbi') :
             sbi'[k].id =
               (IF LastOp' = "complete"
                THEN "REQFWD_COMPLETE_CURRENT_MESSAGE"
                ELSE IF LastOp' = "retrieve"
                THEN "RPMI_REQFWD_RETRIEVE_CURRENT_MESSAGE"
                ELSE "none") ]_vars

\* C14 witness: the loop is in its second round, retrieving after the
\* completion of an event whose payload offset was not 0.
C14_Witness ==
  /\ LastOp = "retrieve"
  /\ InputBuffer > NsCommBufPhysicalStart
  /\ Len(sbi) = 1

\* C15: the completion sent after a dispatch carries in mm_data.Arg0 the
\* translation of the status the dispatcher returned.
C15_CompletionCarriesResult ==
  (LastOp = "complete" /\ ~evLog[1].first /\ evLog[1].sent) =>
    evLog[1].Arg0 = SmmStatusOf(Status)

\* C16: the loop never stops, and as long as the calls return every
\* retrieved event is followed by its completion and the completion by the
\* next retrieval.
C16_LoopNeverStops ==
  /\ [](evLog # <<>> => pc # "Halt")
  /\ (/\ LastOp = "retrieve" /\ evLog[1].ok
      /\ InputBuffer + MmReqFwdResp.Arg1
           <= NsCommBufPhysicalStart + MaxOffsetTotal)
       ~> (LastOp = "complete")
  /\ (LastOp = "complete") ~> (LastOp = "retrieve")

\* C17: the dispatcher gets the start of the non-secure communication buffer
\* plus the payload offset of the event just retrieved, whatever the offsets
\* of earlier events were.
C17_DispatchAddress ==
  (LastOp = "dispatch" /\ evLog[1].retrieved) =>
    evLog[1].InputBuffer = NsCommBufPhysicalStart + MmReqFwdResp.Arg1

-----------------------------------------------------------------------------
(* StandaloneMmInitialization: the checks before anything is created *)

\* C21: the first step of StandaloneMmInitialization issues at most one
\* monitor call, the TSM info query, and none when the firmware volume is
\* empty; it goes on to create the TVM only with a successful query that
\* reported TSM_READY; and when it returns EFI_INVALID_PARAMETER,
\* EFI_NOT_STARTED or EFI_NOT_READY no other call was issued, no conversion
\* was begun, no guest id was taken and no memory is held.
C21_TsmInfoFirst ==
  [][ pc = "Entry" =>
        /\ Len(sbi') <= 1
        /\ \A i \in 1..Len(sbi') : sbi'[i].fn = "GetTsmInfo"
        /\ FvSize = 0 =>
             pc' = "Done" /\ InitStatus' = "EFI_INVALID_PARAMETER" /\ sbi' = <<>>
        /\ FvSize # 0 => Len(sbi') = 1
        /\ (sbi' # <<>> /\ ~sbi'[1].ok) =>
             pc' = "Done" /\ InitStatus' = "EFI_NOT_STARTED"
        /\ pc' = "CreateTvm" =>
             /\ sbi'[1].ok
             /\ TsmInfo'.TsmState = TSM_READY
             /\ MmBase' # 0
        /\ (pc' = "Done" /\ InitStatus' = "EFI_NOT_READY") => sbi'[1].ok
        /\ (pc' = "Done" /\ InitStatus' \in {"EFI_INVALID_PARAMETER",
                                             "EFI_NOT_STARTED",
                                             "EFI_NOT_READY"}) =>
             /\ MmBase' = 0
             /\ mTvmGuestId' = mTvmGuestId
             /\ tsmPending' = {} /\ tsmConfidential' = {}
             /\ finalizeCount' = 0
  ]_vars

\* The TSM was found loaded but not ready: StandaloneMmInitialization
\* returned EFI_NOT_READY after the query alone
C21_Witness ==
  /\ pc = "Done" /\ InitStatus = "EFI_NOT_READY"
  /\ Len(sbi) = 1 /\ sbi[1].fn = "GetTsmInfo" /\ sbi[1].ok
  /\ MmBase = 0

\* C22: the parameters of SbiTeeHostCreateTvm: the page directory address is
\* a multiple of 16KiB, the state address (16KiB above it) a multiple of
\* 4KiB, and the page directory with the TvmStatePages state pages lies in a
\* range a successful SbiTeeHostConvertPages was issued for before the call,
\* and in the allocated buffer.
C22_CreateTvmParams ==
  \A i \in 1..Len(sbi) :
    sbi[i].fn = "CreateTvm" =>
      /\ sbi[i].base % SIZE_16KB = 0
      /\ (sbi[i].base + SIZE_16KB) % SIZE_4KB = 0
      /\ \E j \in 1..(i - 1) :
           /\ sbi[j].fn = "ConvertPages" /\ sbi[j].ok
           /\ sbi[j].base <= sbi[i].base
           /\ sbi[i].base + sbi[i].pages * SIZE_4KB
                <= sbi[j].base + sbi[j].pages * SIZE_4KB
      /\ MmBase <= sbi[i].base
      /\ sbi[i].base + sbi[i].pages * SIZE_4KB <= MmBase + MmSize

-----------------------------------------------------------------------------
(* StandaloneMmInitialization: the guest-physical layout *)

\* The guest-physical range a call populates, and the ranges of the layout,
\* in bytes from MM_VM_RAM_BASE
GpaRange(c) ==
  [lo |-> (c.gpa - MM_VM_RAM_BASE) * 4,
   hi |-> (c.gpa - MM_VM_RAM_BASE) * 4 + c.pages * SIZE_4KB]
BootInfoRange ==
  [lo |-> MM_VM_BOOT_INFO_OFFSET,
   hi |-> MM_VM_BOOT_INFO_OFFSET + MM_VM_BOOT_INFO_SIZE]
StackRange ==
  [lo |-> MM_VM_BOOT_STACK_OFFSET,
   hi |-> MM_VM_BOOT_STACK_OFFSET + MM_VM_BOOT_STACK_SIZE]
HeapRange ==
  [lo |-> MM_VM_BOOT_HEAP_OFFSET,
   hi |-> MM_VM_BOOT_HEAP_OFFSET + MM_VM_BOOT_HEAP_SIZE]
FvRange ==
  [lo |-> MM_VM_RAM_IMAGE_START_OFFSET,
   hi |-> MM_VM_RAM_IMAGE_START_OFFSET + FvSize]
RemainingRange(size) ==
  [lo |-> MM_VM_RAM_IMAGE_START_OFFSET + FvSize,
   hi |-> MM_VM_RAM_IMAGE_START_OFFSET + FvSize + size]
SharedBufRange ==
  [lo |-> MM_VM_RAM_MM_SHARED_BUF_OFFSET,
   hi |-> MM_VM_RAM_MM_SHARED_BUF_OFFSET + MM_VM_RAM_MM_SHARED_BUF_SIZE]
Disjoint(a, b) == a.hi <= b.lo \/ b.hi <= a.lo
Populates(c) == c.fn \in {"AddTvmMeasuredPages", "AddTvmZeroPages"}

\* C23: with MmSize >= 32MiB and an FV size that is a multiple of the page
\* size, every range StandaloneMmInitialization populates (boot info and FV
\* measured, zero pages for the remaining RAM, the stack and the heap) is one
\* of five pairwise disjoint ranges, lies in the region declared with
\* SbiTeeHostAddTvmMemoryRegion (MmTvmSize bytes from MM_VM_RAM_BASE) and
\* does not meet the shared-buffer window.
C23_LayoutDisjoint ==
  [][ (MmSize >= MM_VM_RAM_MIN_SIZE /\ FvSize % SIZE_4KB = 0) =>
        LET rest == RemainingRange(IF pc = "Remaining" THEN MmTvmSize'
                                   ELSE MmTvmSize)
            plan == <<BootInfoRange, StackRange, HeapRange, FvRange, rest>>
        IN  /\ pc \in {"BootInfo", "Fv"} =>
                 \A i \in 1..Len(sbi') :
                   Populates(sbi'[i]) =>
                     /\ GpaRange(sbi'[i]) =
                          (IF pc = "Fv" THEN FvRange ELSE BootInfoRange)
                     /\ 0 <= GpaRange(sbi'[i]).lo
                     /\ GpaRange(sbi'[i]).hi <= MmTvmSize
                     /\ Disjoint(GpaRange(sbi'[i]), SharedBufRange)
            /\ pc = "Remaining" =>
                 /\ rest.lo <= rest.hi /\ rest.hi <= MmTvmSize
                 /\ StackRange.hi <= MmTvmSize /\ HeapRange.hi <= MmTvmSize
            /\ pc = "ZeroPages" =>
                 /\ \A i \in 1..Len(sbi') :
                      Populates(sbi'[i]) =>
                        /\ GpaRange(sbi'[i]) \in {rest, StackRange, HeapRange}
                        /\ Disjoint(GpaRange(sbi'[i]), SharedBufRange)
                 /\ \A i, j \in 1..5 :
                      i # j => Disjoint(plan[i], plan[j])
  ]_vars

-----------------------------------------------------------------------------
(* CModuleEntryPoint: from the boot information to the event loop *)

BOOT_PAYLOAD_VERSION == 1

\* Header.Version of the boot information the hart is started with: the one
\* CreateMmBootInfo writes and another one
BootVersions == {BOOT_PAYLOAD_VERSION, 2}

\* The Standalone MM hart enters CModuleEntryPoint
InitMm ==
  /\ pc = "MmEntry"
  /\ HtVal = 0 /\ HtInst = 0 /\ Stval = 0 /\ Scause = NoScause
  /\ GuestGprs = ZeroGprs
  /\ InitQuiet

\* CModuleEntryPoint up to the call of InitRiscVSmmArgs: return when there
\* is no boot information, else create the HOB list from it and call the MM
\* core entry points
CModuleEntryPoint ==
  /\ pc = "MmEntry"
  /\ \E PayloadBootInfo \in
          {NullBuffer} \cup {[Version |-> v] : v \in BootVersions} :
       IF PayloadBootInfo = NullBuffer
       THEN /\ pc' = "MmReturned"
            /\ evLog' = <<>>
       ELSE /\ pc' = "InitSmmArgs"
            /\ evLog' = << [op |-> "CreateHobListFromBootInfo",
                            Version |-> PayloadBootInfo.Version],
                           [op |-> "ProcessModuleEntryPointList",
                            Version |-> PayloadBootInfo.Version] >>
  /\ UNCHANGED <<buildVars, hostVars, Status, sbi, shmem, InputBuffer,
                 MmReqFwdResp, gShmemSet, gShmemSize, EventCompleteSvcArgs>>

NextMm ==
  \/ CModuleEntryPoint
  \/ NextLoop

SpecMm == InitMm /\ [][NextMm]_vars

\* C24: CModuleEntryPoint goes on from the boot information (builds the HOB
\* list, calls the MM core entry points, goes towards DelegatedEventLoop)
\* only when its version tag is BOOT_PAYLOAD_VERSION.
C24_VersionChecked ==
  [][ pc = "MmEntry" =>
        /\ \A i \in 1..Len(evLog') :
             evLog'[i].Version = BOOT_PAYLOAD_VERSION
        /\ (pc' # "MmReturned") =>
             (evLog' # <<>> /\ evLog'[1].Version = BOOT_PAYLOAD_VERSION)
  ]_vars

-----------------------------------------------------------------------------
(* SbiMpxySendMessage: the response length *)

\* C27: SbiMpxySendMessage of either library, when it returns EFI_SUCCESS
\* and was given a response buffer and a ResponseLen, has written
\* *ResponseLen.
C27_ResponseLenWritten ==
  (pc = "mpxy_done" /\ evLog[1].Status = "EFI_SUCCESS"
     /\ evLog[1].ResponseBefore # NullBuffer) =>
    evLog[1].lenWritten

-----------------------------------------------------------------------------
(* MmCommunication2Communicate, of RiscVCoVEDxe and of MmCommunicationDxe *)

\* sizeof (HeaderGuid) + sizeof (MessageLength) of EFI_MM_COMMUNICATE_HEADER
SizeofCommHeader == 24
SizeofMmramDescriptor == 32
SizeofCommArgs == 16

\* mMmNsSharedBaseSize as RiscVCoVEMmCommunication2Initialize sets it;
\* taken for mNsCommBuffMemRegion.Length (PcdMmBufferSize) as well
mMmNsSharedBaseSize == MM_VM_RAM_MM_SHARED_BUF_SIZE - SizeofMmramDescriptor

\* MessageLength of the caller's header: none, small ones, the largest one
\* that fits the shared buffer and the first that does not
MessageLengths ==
  {0, 8, 40, mMmNsSharedBaseSize - SizeofCommHeader,
   mMmNsSharedBaseSize - SizeofCommHeader + 1}

\* *CommSize: 0, the header alone, header and 8 or 40 bytes, the size of the
\* shared buffer, and one more
CommSizes ==
  {0, SizeofCommHeader, SizeofCommHeader + 8, SizeofCommHeader + 40,
   mMmNsSharedBaseSize, mMmNsSharedBaseSize + 1}

\* MessageLength of the header the MM side leaves: small ones, and one that
\* with the header exceeds the shared buffer
ReplyLengths == {8, 40, mMmNsSharedBaseSize}

\* What the MM side may leave in the shared buffer that held Buffer
MmReplies(Buffer) ==
  {[Buffer EXCEPT !.MessageLength = n, !.Data = "reply"] : n \in ReplyLengths}

\* HeaderGuid of the caller's header: the one service of GuidChidArray and
\* another
HeaderGuids == {"gMmHestGetErrorSourceInfoGuid", "gEfiSmmVariableProtocolGuid"}

\* struct GuidMapping GuidChidArray[]
GuidChidArray ==
  << [ServiceGuid |-> "gMmHestGetErrorSourceInfoGuid", ChannelId |-> 0] >>

\* GetChannelForGuid: *ChannelId is written only when an entry matches
GetChannelForGuid(GuidStr, ChannelId) ==
  IF \E Index \in 1..Len(GuidChidArray) :
       GuidChidArray[Index].ServiceGuid = GuidStr
  THEN LET Index == CHOOSE i \in 1..Len(GuidChidArray) :
                      /\ GuidChidArray[i].ServiceGuid = GuidStr
                      /\ \A j \in 1..(i - 1) :
                           GuidChidArray[j].ServiceGuid # GuidStr
       IN  [Status |-> "EFI_SUCCESS",
            ChannelId |-> GuidChidArray[Index].ChannelId]
  ELSE [Status |-> "EFI_NO_MAPPING", ChannelId |-> ChannelId]

\* What no step of the communication driver touches
commFrame == <<platVars, initVars, drvVars, caller, TimerPeriod, hwTimerPeriod,
               exitVars, faultVars, chanVars, mmioLog, gprLog, histVars,
               InputBuffer,
               MmReqFwdResp, EventCompleteSvcArgs, evLog>>

InitComm ==
  /\ pc = "CommInit"
  /\ HtVal = 0 /\ HtInst = 0 /\ Stval = 0 /\ Scause = NoScause
  /\ GuestGprs = ZeroGprs
  /\ InitQuiet

\* The driver's entry point: MmCommunicationDxe opens the MPXY channel and
\* ASSERTs that it did, RiscVCoVEDxe needs none; the protocol is installed
MmCommunication2Initialize ==
  /\ pc = "CommInit"
  /\ \E opened \in BOOLEAN :
       /\ gShmemSet' = opened
       /\ gShmemSize' = IF opened THEN MPXY_SHMEM_SIZE ELSE 0
       /\ pc' = IF ~opened /\ assertOn THEN "Halt" ELSE "CommIdle"
  /\ UNCHANGED <<buildVars, commFrame, commVars, Status, sbi, shmem>>

\* The caller of the protocol fills its buffer and its CommSize, or passes
\* no buffer or no CommSize
CallerRequest ==
  /\ pc = "CommIdle"
  /\ pc' = "CommCall"
  /\ CommBuffer' \in {NullBuffer} \cup
                     {[HeaderGuid |-> g, MessageLength |-> n,
                       Data |-> "request"] :
                        g \in HeaderGuids, n \in MessageLengths}
  /\ CommSize' \in {NullBuffer} \cup {[Value |-> v] : v \in CommSizes}
  /\ sbi' = <<>>
  /\ UNCHANGED <<buildVars, commFrame, NsSharedBuf, Status, gShmemSet,
                 gShmemSize, shmem>>

\* Parameter checks that do not compare *CommSize with the size of the
\* message.
CheckParameters_noShort(Buffer, Size) ==
  IF Buffer = NullBuffer
  THEN [Status |-> "EFI_INVALID_PARAMETER", CommBuffer |-> Buffer,
        CommSize |-> Size, BufferSize |-> 0]
  ELSE LET BufferSize == Buffer.MessageLength + SizeofCommHeader
           bad   == Size # NullBuffer
                    /\ (Size.Value = 0 \/ Size.Value > mMmNsSharedBaseSize)
           Size1 == IF bad THEN [Value |-> mMmNsSharedBaseSize] ELSE Size
           big   == Buffer.MessageLength = 0
                    \/ BufferSize > mMmNsSharedBaseSize
       IN  [Status |-> IF big THEN "EFI_BAD_BUFFER_SIZE"
                       ELSE IF bad THEN "EFI_BAD_BUFFER_SIZE"
                       ELSE "EFI_SUCCESS",
            CommBuffer |-> IF big
                           THEN [Buffer EXCEPT !.MessageLength =
                                   mMmNsSharedBaseSize - SizeofCommHeader]
                           ELSE Buffer,
            CommSize |-> Size1,
            BufferSize |-> BufferSize]

\* Parameter checks in which a *CommSize that is too small has the last
\* word.
CheckParameters_shortLast(Buffer, Size) ==
  IF Buffer = NullBuffer
  THEN [Status |-> "EFI_INVALID_PARAMETER", CommBuffer |-> Buffer,
        CommSize |-> Size, BufferSize |-> 0]
  ELSE LET BufferSize == Buffer.MessageLength + SizeofCommHeader
           bad   == Size # NullBuffer
                    /\ (Size.Value = 0 \/ Size.Value > mMmNsSharedBaseSize)
           Size1 == IF bad THEN [Value |-> mMmNsSharedBaseSize] ELSE Size
           short == Size # NullBuffer /\ Size1.Value < BufferSize
           big   == Buffer.MessageLength = 0
                    \/ BufferSize > mMmNsSharedBaseSize
       IN  [Status |-> IF short THEN "EFI_INVALID_PARAMETER"
                       ELSE IF big THEN "EFI_BAD_BUFFER_SIZE"
                       ELSE IF bad THEN "EFI_BAD_BUFFER_SIZE"
                       ELSE "EFI_SUCCESS",
            CommBuffer |-> IF big
                           THEN [Buffer EXCEPT !.MessageLength =
                                   mMmNsSharedBaseSize - SizeofCommHeader]
                           ELSE Buffer,
            CommSize |-> Size1,
            BufferSize |-> BufferSize]

\* The status and the caller's memory after the parameter checks
CheckParameters(Buffer, Size) ==
  IF Buffer = NullBuffer
  THEN [Status |-> "EFI_INVALID_PARAMETER", CommBuffer |-> Buffer,
        CommSize |-> Size, BufferSize |-> 0]
  ELSE LET BufferSize == Buffer.MessageLength + SizeofCommHeader
           bad   == Size # NullBuffer
                    /\ (Size.Value = 0 \/ Size.Value > mMmNsSharedBaseSize)
           Size1 == IF bad THEN [Value |-> mMmNsSharedBaseSize] ELSE Size
           short == Size # NullBuffer /\ Size1.Value < BufferSize
           big   == Buffer.MessageLength = 0
                    \/ BufferSize > mMmNsSharedBaseSize
       IN  [Status |-> IF big THEN "EFI_BAD_BUFFER_SIZE"
                       ELSE IF short THEN "EFI_INVALID_PARAMETER"
                       ELSE IF bad THEN "EFI_BAD_BUFFER_SIZE"
                       ELSE "EFI_SUCCESS",
            CommBuffer |-> IF big
                           THEN [Buffer EXCEPT !.MessageLength =
                                   mMmNsSharedBaseSize - SizeofCommHeader]
                           ELSE Buffer,
            CommSize |-> Size1,
            BufferSize |-> BufferSize]

\* MmCommunication2Communicate of RiscVCoVEDxe (impl "CoVE": RiscVTriggerMM)
\* and of MmCommunicationDxe (impl "Mpxy": SbiMpxySendMessage of
\* DxeRiscvMpxyLib, whose MmRespLen is whatever the stack held)
MmCommunication2Communicate ==
  /\ pc = "CommCall"
  /\ \E impl \in {"CoVE", "Mpxy"} :
     \E c \in {CheckParameters(CommBuffer, CommSize)} :
       /\ CommSize' = c.CommSize
       /\ IF c.Status # "EFI_SUCCESS"
          THEN /\ Status' = c.Status
               /\ CommBuffer' = c.CommBuffer
               /\ sbi' = <<>>
               /\ pc' = "CommIdle"
               /\ UNCHANGED <<NsSharedBuf, shmem>>
          ELSE IF impl = "CoVE"
          THEN \E Triggered \in {"EFI_SUCCESS", "EFI_DEVICE_ERROR"},
                  reply \in {CommBuffer} \cup MmReplies(CommBuffer) :
                 /\ sbi' = << [fn |-> "RiscVTriggerMM"] >>
                 /\ NsSharedBuf' = reply
                 /\ Status' = Triggered
                 /\ CommBuffer' = IF Triggered = "EFI_SUCCESS" THEN reply
                                  ELSE CommBuffer
                 /\ pc' = "CommIdle"
                 /\ UNCHANGED shmem
          ELSE \E Ret \in SbiRets({[Arg0 |-> a, Arg1 |-> 0] :
                            a \in {RISCV_SMM_RET_SUCCESS,
                                   RISCV_SMM_RET_INVALID_PARAMS,
                                   RISCV_SMM_RET_DENIED,
                                   RISCV_SMM_RET_NO_MEMORY}}),
                  reply \in {CommBuffer} \cup MmReplies(CommBuffer) :
               LET Args == [Arg0 |-> NsCommBufPhysicalStart, Arg1 |-> 0]
                   \* the result of GetChannelForGuid is dropped: Status is
                   \* still the one of the parameter checks
                   ch == GetChannelForGuid(CommBuffer.HeaderGuid, 0)
                   r == SbiMpxySendMessage("Dxe", "RISCV_MSG_ID_SMM_COMMUNICATE",
                                           Args, SizeofCommArgs, Args, Ret)
               IN  \E MmRespLen \in (IF r.lenWritten THEN {Ret.Value}
                                     ELSE {0, SizeofCommArgs}) :
                     /\ sbi' = [k \in 1..Len(r.calls) |->
                                 [fn |-> r.calls[k].fn,
                                  ChannelId |-> ch.ChannelId,
                                  id |-> r.calls[k].id,
                                  len |-> r.calls[k].len,
                                  msg |-> r.calls[k].msg]]
                     /\ shmem' = r.shmem
                     /\ NsSharedBuf' = IF r.calls = <<>> THEN CommBuffer
                                       ELSE reply
                     /\ IF r.Status # "EFI_SUCCESS" \/ MmRespLen = 0
                        THEN /\ Status' = r.Status
                             /\ pc' = "CommIdle"
                             /\ UNCHANGED CommBuffer
                        ELSE /\ Status' =
                                  CASE r.Response.Arg0 = RISCV_SMM_RET_SUCCESS
                                         -> "EFI_SUCCESS"
                                    [] r.Response.Arg0 = RISCV_SMM_RET_INVALID_PARAMS
                                         -> "EFI_INVALID_PARAMETER"
                                    [] r.Response.Arg0 = RISCV_SMM_RET_DENIED
                                         -> "EFI_ACCESS_DENIED"
                                    [] r.Response.Arg0 = RISCV_SMM_RET_NO_MEMORY
                                         -> "EFI_OUT_OF_RESOURCES"
                                    [] OTHER -> "EFI_ACCESS_DENIED"
                             /\ pc' = IF assertOn /\ r.Response.Arg0 \notin
                                           {RISCV_SMM_RET_SUCCESS,
                                            RISCV_SMM_RET_INVALID_PARAMS,
                                            RISCV_SMM_RET_DENIED}
                                      THEN "Halt" ELSE "CommIdle"
                             /\ CommBuffer' =
                                  IF r.Response.Arg0 = RISCV_SMM_RET_SUCCESS
                                  THEN (IF r.calls = <<>> THEN CommBuffer
                                        ELSE reply)
                                  ELSE CommBuffer
  /\ UNCHANGED <<buildVars, commFrame, gShmemSet, gShmemSize>>

NextComm ==
  \/ MmCommunication2Initialize
  \/ CallerRequest
  \/ MmCommunication2Communicate

SpecComm == InitComm /\ [][NextComm]_vars

\* The cases the parameter checks refuse: no buffer; a CommSize of 0 or
\* larger than the shared buffer, or smaller than header and message; a
\* MessageLength of 0; header and message larger than the shared buffer
ParameterError(Buffer, Size) ==
  \/ Buffer = NullBuffer
  \/ /\ Buffer # NullBuffer
     /\ \/ Size # NullBuffer
           /\ (Size.Value = 0 \/ Size.Value > mMmNsSharedBaseSize)
        \/ Size # NullBuffer
           /\ Size.Value < SizeofCommHeader + Buffer.MessageLength
        \/ Buffer.MessageLength = 0
        \/ SizeofCommHeader + Buffer.MessageLength > mMmNsSharedBaseSize

\* C25: a call of MmCommunication2Communicate that the parameter checks
\* refuse returns EFI_INVALID_PARAMETER or EFI_BAD_BUFFER_SIZE, leaves the
\* shared communication buffer and the MPXY shared memory as they were and
\* triggers nothing (no RiscVTriggerMM, no SbiMpxySendMessage).
C25_RefusedLeavesShared ==
  [][ (pc = "CommCall" /\ ParameterError(CommBuffer, CommSize)) =>
        /\ Status' \in {"EFI_INVALID_PARAMETER", "EFI_BAD_BUFFER_SIZE"}
        /\ NsSharedBuf' = NsSharedBuf
        /\ shmem' = shmem
        /\ sbi' = <<>>
  ]_vars

\* C25 witness: a request was refused for its size while the shared buffer
\* held the reply of an earlier one, and still holds it
C25_Witness ==
  /\ pc = "CommIdle" /\ Status = "EFI_BAD_BUFFER_SIZE"
  /\ CommBuffer # NullBuffer /\ CommSize # NullBuffer
  /\ NsSharedBuf.Data = "reply"
  /\ sbi = <<>>

-----------------------------------------------------------------------------
(* RiscVTriggerMM: the loop and the exits *)

\* C28: an exit whose cause has the interrupt bit set is not dispatched:
\* RiscVCoVEException returns EFI_INVALID_PARAMETER for it, issues no monitor
\* call, accesses no device, writes no guest register, records no region
\* and allocates no shared buffer, whatever the other bits of the cause are.
C28_InterruptNotDispatched ==
  [][ (pc = "Exception" /\ Scause.intr) =>
        /\ ExcStatus' = "EFI_INVALID_PARAMETER"
        /\ pc' = "TriggerExit"
        /\ sbi' = <<>> /\ mmioLog' = <<>> /\ gprLog' = <<>>
        /\ UNCHANGED <<GuestGprs, mHostSharedMemoryBase,
                       mGuestSharedMemoryBase, mGuestSharedMemorySize,
                       mTvmRunBlock, declaredMmio, declaredShared>>
  ]_vars

\* C28 witness: the loop ended on an interrupt whose low bits are the code
\* of an ecall from VS mode, with the registers of a guest request
C28_Witness ==
  /\ pc = "TriggerExit" /\ ExcStatus = "EFI_INVALID_PARAMETER"
  /\ Scause.intr /\ Scause.code = EXCEPT_RISCV_ENV_CALL_FROM_VS_MODE
  /\ GuestGprs[17] = EXT_COVE_GUEST

\* C29: the do-while loop of RiscVTriggerMM ends exactly when
\* RiscVCoVEException returned EFI_INVALID_PARAMETER: after any other result
\* the next step is the loop body, which issues SbiCoVHRunTvmVcpu first.
C29_LoopStopsOnInvalidParameter ==
  [][ /\ (pc = "Exception" /\ pc' \notin {"Halt", "Undefined"}) =>
           /\ (ExcStatus' = "EFI_INVALID_PARAMETER") <=> (pc' = "TriggerExit")
           /\ (ExcStatus' # "EFI_INVALID_PARAMETER") <=> (pc' = "Run")
      /\ pc = "Run" =>
           /\ Len(sbi') = 1 /\ sbi'[1].fn = "RunTvmVcpu"
           /\ pc' \in {"Exception", "Halt"}
      /\ pc' = "TriggerExit" => pc = "Exception"
  ]_vars

\* C29 witness: the handler returned EFI_NOT_FOUND for an unknown guest
\* request and the loop is about to run the VCPU again
C29_Witness ==
  /\ pc = "Run" /\ ExcStatus = "EFI_NOT_FOUND"
  /\ Scause = EcallScause /\ GuestGprs[17] = EXT_COVE_GUEST

\* C30: an exit SbiCoVHRunTvmVcpu returned is decoded by RiscVCoVEException
\* before the next SbiCoVHRunTvmVcpu: the loop body is never reached right
\* after a step that itself ran the VCPU successfully without decoding the
\* exit, as the handler of a guest request does.
C30_EveryExitDecoded ==
  ~ ( /\ pc = "Run"
      /\ \E i \in 1..Len(sbi) : sbi[i].fn = "RunTvmVcpu" /\ sbi[i].ok )

\* C31: RiscVTriggerMM keeps the host timer disabled (period 0) whenever
\* the loop is about to call SbiCoVHRunTvmVcpu, returns with the timer period
\* the timer had on entry, and without a timer protocol makes no call
\* through gTimerAp.
C31_TimerKeptDisabled ==
  [][ /\ pc' = "Run" => hwTimerPeriod' = 0
      /\ (pc = "TriggerExit" /\ pc' \in {"Finish", "Idle"})
           => hwTimerPeriod' \in (IF gTimerAp = NULL THEN {0}
                                  ELSE TimerPeriods)
      /\ (pc = "TriggerExit" /\ gTimerAp = NULL) => pc' # "Undefined"
  ]_vars

\* The exit being decoded is a guest page fault inside the shared-buffer
\* window
WindowFault ==
  /\ Scause \in {LoadFaultScause, StoreFaultScause}
  /\ FaultAddrOf(HtVal, Stval).w >= MM_VM_RAM_BASE
       + WordsOf(MM_VM_RAM_MM_SHARED_BUF_OFFSET)
  /\ FaultAddrOf(HtVal, Stval).w < MM_VM_RAM_BASE
       + WordsOf(MM_VM_RAM_MM_SHARED_BUF_OFFSET
                 + MM_VM_RAM_MM_SHARED_BUF_SIZE)

\* C32: the host allocates its shared buffer and issues
\* SbiCoVHAddTvmSharedPages at most once: the call is issued only while
\* mHostSharedMemoryBase is null and sets it, a set base never changes, and
\* every later fault inside the window returns EFI_SUCCESS with no call and
\* no allocation.
C32_SharedBufferMappedOnce ==
  [][ /\ (\E k \in 1..Len(sbi') : sbi'[k].fn = "AddTvmSharedPages") =>
           /\ mHostSharedMemoryBase = NULL
           /\ mHostSharedMemoryBase' # NULL
           /\ Len(sbi') = 1
           /\ sbi'[1].base = mHostSharedMemoryBase'
      /\ mHostSharedMemoryBase # NULL =>
           mHostSharedMemoryBase' = mHostSharedMemoryBase
      /\ (pc = "Exception" /\ WindowFault /\ mHostSharedMemoryBase # NULL) =>
           /\ ExcStatus' = "EFI_SUCCESS"
           /\ sbi' = <<>>
           /\ pc' = "Run"
  ]_vars

\* C32 witness: a later fault inside the window was answered EFI_SUCCESS
\* with the buffer already mapped and no call issued
C32_Witness ==
  /\ pc = "Run" /\ WindowFault
  /\ ExcStatus = "EFI_SUCCESS"
  /\ mHostSharedMemoryBase # NULL
  /\ sbi = <<>>

\* C33: an AddSharedMemory request whose size exceeds
\* MM_VM_RAM_MM_SHARED_BUF_SIZE is rejected: RiscVCoVEHandleGuestRequest
\* returns an error status and does not write the acceptance value 0 to
\* the guest's a0.
C33_OversizeShareRejected ==
  [][ (/\ pc = "Exception" /\ Scause = EcallScause
       /\ GuestGprs[17] = EXT_COVE_GUEST /\ GuestGprs[16] = 2
       /\ GuestGprs[11] > MM_VM_RAM_MM_SHARED_BUF_SIZE
       /\ pc' \notin {"Halt", "Undefined"}) =>
        /\ ExcStatus' # "EFI_SUCCESS"
        /\ gprLog' = <<>>
  ]_vars

\* C34: on a successful MmCommunication2Communicate the number of bytes
\* copied back to the caller's buffer (header and MessageLength of what the
\* shared buffer holds) exceeds neither the size of the shared buffer nor
\* the size of the request, whatever MessageLength the MM side left.
C34_CopyBackBounded ==
  [][ (/\ pc = "CommCall" /\ sbi' # <<>>
       /\ Status' = "EFI_SUCCESS" /\ CommBuffer' = NsSharedBuf') =>
        /\ SizeofCommHeader + NsSharedBuf'.MessageLength
             <= mMmNsSharedBaseSize
        /\ SizeofCommHeader + NsSharedBuf'.MessageLength
             <= SizeofCommHeader + CommBuffer.MessageLength
  ]_vars

\* C35: in MmCommunication2Communicate of MmCommunicationDxe a header GUID
\* without an entry in GuidChidArray (GetChannelForGuid returns
\* EFI_NO_MAPPING) has no message sent and the call returns an error (a
\* step that triggered the MM side by RiscVTriggerMM is the other driver's).
C35_NoMappingNoMessage ==
  [][ (/\ pc = "CommCall" /\ CommBuffer # NullBuffer
       /\ GetChannelForGuid(CommBuffer.HeaderGuid, 0).Status
            = "EFI_NO_MAPPING") =>
        /\ \A k \in 1..Len(sbi') : sbi'[k].fn # "MpxySendMsgWithResp"
        /\ (\A k \in 1..Len(sbi') : sbi'[k].fn # "RiscVTriggerMM") =>
             Status' # "EFI_SUCCESS"
  ]_vars

-----------------------------------------------------------------------------
(* CommonRiscvMpxy.c: channels, and the shared memory they are read through *)

EFI_PAGE_SIZE == 4096

\* Buffers the page allocator can hand out before it runs out of memory
MaxBufs == 4

\* Calls of SbiMpxyChannelOpen and SbiMpxyChannelClose are followed while
\* gShmemRefCount is within this distance of 0
MaxRefCount == 3

\* EFI_SIZE_TO_PAGES
EFI_SIZE_TO_PAGES(Size) ==
  (Size \div EFI_PAGE_SIZE) + (IF Size % EFI_PAGE_SIZE # 0 THEN 1 ELSE 0)

\* Attributes[MpxyChanAttrMsgDataMaxLen] of the channels: one page, two pages
ChanDataLens == {EFI_PAGE_SIZE, 2 * EFI_PAGE_SIZE}

\* gShmemSet, gShmemSize, gShmemPhysLo (gShmemPhysHi is INVAL_PHYS_ADDR with
\* it, and 0 otherwise)
ActiveShmem ==
  [Set |-> gShmemSet, Size |-> gShmemSize, PhysLo |-> gShmemPhysLo]

\* SbiMpxySetShmem.  With ReadBackOldShmem the SBI implementation leaves the
\* details of the shared memory it replaces in the new one, the invalid
\* address when there was none.
SbiMpxySetShmem(m, ShmemPhysLo, ShmemSize, ReadBackOldShmem, ok) ==
  LET call == [fn |-> "SBI_EXT_MPXY_SET_SHMEM", lo |-> ShmemPhysLo,
               size |-> ShmemSize, ok |-> ok]
  IN  IF ~ok
      THEN [Status |-> "EFI_DEVICE_ERROR", m |-> m, Prev |-> m,
            calls |-> <<call>>]
      ELSE IF ShmemPhysLo = INVAL_PHYS_ADDR
      THEN [Status |-> "EFI_SUCCESS",
            m |-> [Set |-> FALSE, Size |-> 0, PhysLo |-> INVAL_PHYS_ADDR],
            Prev |-> m, calls |-> <<call>>]
      ELSE [Status |-> "EFI_SUCCESS",
            m |-> [Set |-> TRUE, Size |-> ShmemSize, PhysLo |-> ShmemPhysLo],
            Prev |-> m, calls |-> <<call>>]

\* SbiMpxyDisableShmem
SbiMpxyDisableShmem(m, ok) ==
  IF ~m.Set
  THEN [Status |-> "EFI_SUCCESS", m |-> m, Prev |-> m, calls |-> <<>>]
  ELSE SbiMpxySetShmem(m, INVAL_PHYS_ADDR, 0, FALSE, ok)

\* SbiMpxyReadChannelAttrs with gNonChanTempShmem = Temp: switch to the
\* temporary shared memory, read, switch back
SbiMpxyReadChannelAttrs(m, Temp, ok) ==
  LET s1 == SbiMpxySetShmem(m, Temp, EFI_PAGE_SIZE, TRUE, ok[1])
      rd == [fn |-> "SBI_EXT_MPXY_READ_ATTRS", lo |-> 0, size |-> 0,
             ok |-> ok[2]]
      s3 == SbiMpxySetShmem(s1.m, s1.Prev.PhysLo, s1.Prev.Size, FALSE, ok[3])
  IN  IF Temp = NULL
      THEN [Status |-> "EFI_DEVICE_ERROR", m |-> m, calls |-> <<>>]
      ELSE IF s1.Status # "EFI_SUCCESS"
      THEN [Status |-> "EFI_DEVICE_ERROR", m |-> m, calls |-> s1.calls]
      ELSE IF ~ok[2]
      THEN [Status |-> "EFI_DEVICE_ERROR", m |-> s1.m,
            calls |-> s1.calls \o <<rd>>]
      ELSE [Status |-> s3.Status, m |-> s3.m,
            calls |-> s1.calls \o <<rd>> \o s3.calls]

\* SbiMpxyGetChannelList with gNonChanTempShmem = Temp
SbiMpxyGetChannelList(m, Temp, ok) ==
  LET s1 == SbiMpxySetShmem(m, Temp, EFI_PAGE_SIZE, TRUE, ok[1])
      rd == [fn |-> "SBI_EXT_MPXY_GET_CHANNEL_IDS", lo |-> 0, size |-> 0,
             ok |-> ok[2]]
      s3 == SbiMpxySetShmem(s1.m, s1.Prev.PhysLo, s1.Prev.Size, FALSE, ok[3])
  IN  IF Temp = NULL
      THEN [Status |-> "EFI_DEVICE_ERROR", m |-> m, calls |-> <<>>]
      ELSE IF s1.Status # "EFI_SUCCESS"
      THEN [Status |-> "EFI_DEVICE_ERROR", m |-> m, calls |-> s1.calls]
      ELSE IF ~ok[2]
      THEN [Status |-> "EFI_DEVICE_ERROR", m |-> s1.m,
            calls |-> s1.calls \o <<rd>>]
      ELSE [Status |-> s3.Status, m |-> s3.m,
            calls |-> s1.calls \o <<rd>> \o s3.calls]

\* What a call into the library leaves: its status, the statics, the
\* allocator's count, the buffers it freed, the SBI calls it made
ChanResult(status, halted, temp, m, virt, pages, count, next, frees, calls) ==
  [Status |-> status, halted |-> halted, Temp |-> temp, m |-> m,
   Virt |-> virt, NrPages |-> pages, RefCount |-> count, next |-> next,
   frees |-> frees, calls |-> calls]

\* SbiMpxyChannelOpen for a channel whose MsgDataMaxLen is ChanDataLen.
\* allocOk[1] is the allocation of gNonChanTempShmem, allocOk[2] the one of
\* SbiShmem; ok[1..3] are the SBI calls of SbiMpxyReadChannelAttrs, ok[4] the
\* SbiMpxySetShmem of the new buffer.
SbiMpxyChannelOpen(ChanDataLen, probeOk, allocOk, ok) ==
  LET init  == gNonChanTempShmem # NULL      \* gMpxyLibInitialized
      temp  == IF init THEN gNonChanTempShmem
               ELSE IF allocOk[1] /\ heapNext < MaxBufs THEN heapNext + 1
               ELSE NULL
      next1 == IF ~init /\ temp # NULL THEN heapNext + 1 ELSE heapNext
      rd    == SbiMpxyReadChannelAttrs(ActiveShmem, temp, ok)
      NrEfiPages == EFI_SIZE_TO_PAGES(ChanDataLen)
      SbiShmem == IF allocOk[2] /\ next1 < MaxBufs THEN next1 + 1 ELSE NULL
      st    == SbiMpxySetShmem(rd.m, SbiShmem, NrEfiPages * EFI_PAGE_SIZE,
                               FALSE, ok[4])
  IN  IF ~init /\ ~probeOk /\ assertOn
      THEN ChanResult("none", TRUE, gNonChanTempShmem, ActiveShmem,
                      gShmemVirt, gNrShmemPages, gShmemRefCount, heapNext,
                      <<>>, <<>>)
      ELSE IF temp = NULL
      THEN ChanResult("EFI_OUT_OF_RESOURCES", FALSE, NULL, ActiveShmem,
                      gShmemVirt, gNrShmemPages, gShmemRefCount, heapNext,
                      <<>>, <<>>)
      ELSE IF rd.Status # "EFI_SUCCESS"
      THEN ChanResult(rd.Status, FALSE, temp, rd.m, gShmemVirt,
                      gNrShmemPages, gShmemRefCount, next1, <<>>, rd.calls)
      ELSE IF rd.m.Set /\ ~(ChanDataLen > rd.m.Size)
      THEN ChanResult("EFI_SUCCESS", FALSE, temp, rd.m, gShmemVirt,
                      gNrShmemPages, gShmemRefCount + 1, next1, <<>>,
                      rd.calls)
      ELSE IF SbiShmem = NULL
      THEN ChanResult("EFI_OUT_OF_RESOURCES", FALSE, temp, rd.m, gShmemVirt,
                      gNrShmemPages, gShmemRefCount, next1, <<>>, rd.calls)
      ELSE IF st.Status # "EFI_SUCCESS"
      THEN ChanResult("EFI_DEVICE_ERROR", FALSE, temp, rd.m, gShmemVirt,
                      gNrShmemPages, gShmemRefCount, next1 + 1,
                      <<SbiShmem>>, rd.calls \o st.calls)
      ELSE ChanResult("EFI_SUCCESS", FALSE, temp, st.m, SbiShmem, NrEfiPages,
                      gShmemRefCount + 1, next1 + 1,
                      IF rd.m.Set /\ gNrShmemPages # 0 THEN <<gShmemVirt>>
                      ELSE <<>>,
                      rd.calls \o st.calls)

\* SbiMpxyChannelClose.  gShmemRefCount is a UINTN: a value -k of the model
\* stands for 2^64 - k, what the decrement of 0 wraps to.
SbiMpxyChannelClose(ok) ==
  LET count == gShmemRefCount - 1
      dis   == SbiMpxyDisableShmem(ActiveShmem, ok)
  IN  IF count # 0
      THEN ChanResult("EFI_SUCCESS", FALSE, gNonChanTempShmem, ActiveShmem,
                      gShmemVirt, gNrShmemPages, count, heapNext, <<>>, <<>>)
      ELSE IF dis.Status # "EFI_SUCCESS"
      THEN ChanResult("EFI_DEVICE_ERROR", FALSE, gNonChanTempShmem,
                      ActiveShmem, gShmemVirt, gNrShmemPages, count, heapNext,
                      <<>>, dis.calls)
      ELSE ChanResult("EFI_SUCCESS", FALSE, gNonChanTempShmem, dis.m,
                      gShmemVirt, gNrShmemPages, count, heapNext,
                      <<gShmemVirt>>, dis.calls)

\* What no call into the MPXY library touches
chanFrame == <<buildVars, platVars, initVars, drvVars, runVars, exitVars,
               faultVars, commVars, mmioLog, gprLog, histVars, shmem,
               InputBuffer, MmReqFwdResp, EventCompleteSvcArgs, evLog>>

\* The statics, the allocator and the log after a call that left r
ChanCommit(op, r) ==
  /\ pc' = IF r.halted THEN "Halt" ELSE "chan"
  /\ gNonChanTempShmem' = r.Temp
  /\ gShmemSet' = r.m.Set
  /\ gShmemSize' = r.m.Size
  /\ gShmemPhysLo' = r.m.PhysLo
  /\ gShmemVirt' = r.Virt
  /\ gNrShmemPages' = r.NrPages
  /\ gShmemRefCount' = r.RefCount
  /\ heapNext' = r.next
  /\ heapFreed' = heapFreed \cup ({r.frees[k] : k \in 1..Len(r.frees)}
                                     \ {NULL})
  /\ chanLog' = [op |-> op, Status |-> r.Status, frees |-> r.frees]
  /\ sbi' = r.calls
  /\ UNCHANGED chanFrame

InitChan ==
  /\ pc = "chan"
  /\ HtVal = 0 /\ HtInst = 0 /\ Stval = 0 /\ Scause = NoScause
  /\ GuestGprs = ZeroGprs
  /\ InitQuiet

\* A driver opens a channel
ChanOpen ==
  /\ pc = "chan"
  /\ gShmemRefCount < MaxRefCount
  /\ \E ChanDataLen \in ChanDataLens, probeOk \in BOOLEAN,
        allocOk \in [1..2 -> BOOLEAN], ok \in [1..4 -> BOOLEAN] :
       ChanCommit("Open",
                  SbiMpxyChannelOpen(ChanDataLen, probeOk, allocOk, ok))

\* A driver closes a channel, whether it had opened one or not
ChanClose ==
  /\ pc = "chan"
  /\ gShmemRefCount > -MaxRefCount
  /\ \E ok \in BOOLEAN : ChanCommit("Close", SbiMpxyChannelClose(ok))

\* A driver reads the attributes of a channel
ChanReadAttrs ==
  /\ pc = "chan"
  /\ \E ok \in [1..3 -> BOOLEAN] :
       LET rd == SbiMpxyReadChannelAttrs(ActiveShmem, gNonChanTempShmem, ok)
       IN  ChanCommit("ReadChannelAttrs",
                      ChanResult(rd.Status, FALSE, gNonChanTempShmem, rd.m,
                                 gShmemVirt, gNrShmemPages, gShmemRefCount,
                                 heapNext, <<>>, rd.calls))

\* A driver lists the channels
ChanGetChannelList ==
  /\ pc = "chan"
  /\ \E ok \in [1..3 -> BOOLEAN] :
       LET rd == SbiMpxyGetChannelList(ActiveShmem, gNonChanTempShmem, ok)
       IN  ChanCommit("GetChannelList",
                      ChanResult(rd.Status, FALSE, gNonChanTempShmem, rd.m,
                                 gShmemVirt, gNrShmemPages, gShmemRefCount,
                                 heapNext, <<>>, rd.calls))

NextChan ==
  \/ ChanOpen
  \/ ChanClose
  \/ ChanReadAttrs
  \/ ChanGetChannelList

SpecChan == InitChan /\ [][NextChan]_vars

\* C36: SbiMpxyReadChannelAttrs and SbiMpxyGetChannelList leave the active
\* shared memory as it was on every return path: its address, its size and
\* whether it is set.
C36_ReadsKeepShmem ==
  [][ chanLog'.op \in {"ReadChannelAttrs", "GetChannelList"} =>
        /\ gShmemSet' = gShmemSet
        /\ gShmemSize' = gShmemSize
        /\ gShmemPhysLo' = gShmemPhysLo
  ]_vars

\* C37: gShmemRefCount is the number of successful opens less the number of
\* successful closes and never wraps below zero: a successful open adds 1, a
\* failed one nothing; a successful close with a channel open takes 1, a
\* failed one nothing; a close with no channel open neither decrements nor
\* frees.
C37_RefCountBalanced ==
  [][ /\ chanLog'.op = "Open" =>
           gShmemRefCount' =
             gShmemRefCount
               + (IF chanLog'.Status = "EFI_SUCCESS" THEN 1 ELSE 0)
      /\ chanLog'.op = "Close" =>
           /\ gShmemRefCount' >= 0
           /\ gShmemRefCount = 0 =>
                gShmemRefCount' = 0 /\ chanLog'.frees = <<>>
           /\ gShmemRefCount > 0 =>
                gShmemRefCount' =
                  gShmemRefCount
                    - (IF chanLog'.Status = "EFI_SUCCESS" THEN 1 ELSE 0)
  ]_vars

\* C38: no buffer is freed twice, and the buffer registered with the SBI
\* implementation is never a freed one.
C38_NoDoubleFree ==
  [][ /\ chanLog'.op \in {"Open", "Close"} =>
           \A k \in 1..Len(chanLog'.frees) :
             chanLog'.frees[k] \notin heapFreed
      /\ gShmemSet' => gShmemPhysLo' \notin heapFreed'
  ]_vars

\* The host-physical bytes of a range of pages
PageRange(r) == [lo |-> r.base, hi |-> r.base + r.pages * SIZE_4KB]

\* C39: StandaloneMmInitialization never returns memory to the host page
\* allocator while a page of it is still converted: what a step passes to
\* FreePages meets no range the monitor holds as converted, whether the
\* conversion is completed or not.
C39_NoFreeWhileConverted ==
  [][ \A f \in heapFreed' \ heapFreed :
        \A r \in tsmConfidential \cup tsmPending :
          Disjoint(PageRange(f), PageRange(r))
  ]_vars

\* C40: with MmSize >= 32MiB every host-physical range
\* StandaloneMmInitialization converts (TVM state, VCPU state, page-table
\* pool, boot info, stack, heap, FV image, remaining RAM) lies inside
\* [MmBase, MmBase + MmSize) and meets no range converted before it, and no
\* size computed on the way has wrapped below zero.
C40_ConvertedInsideRegion ==
  [][ (MmSize >= SIZE_32MB /\ MmBase # 0) =>
        /\ \A k \in 1..Len(sbi') :
             sbi'[k].fn = "ConvertPages" =>
               /\ sbi'[k].pages >= 0
               /\ MmBase <= sbi'[k].base
               /\ sbi'[k].base + sbi'[k].pages * SIZE_4KB <= MmBase + MmSize
               /\ \A r \in tsmConfidential \cup tsmPending :
                    Disjoint(PageRange(sbi'[k]), PageRange(r))
        /\ MmTvmSize' >= 0
  ]_vars

=============================================================================
